---------------------------- MODULE PipelineProofs ----------------------------
(***************************************************************************)
(* Theorems about the tool chain: no assert of the merge utility fails on  *)
(* a file of the pintool's, and what comes out is the execution.           *)
(*                                                                         *)
(* The pintool's side is PintoolInv (TracerFileProofs).  The utility's is  *)
(* an invariant of its own, over the lines it has read: what it needs to   *)
(* know of a line is what Follows says.                                    *)
(***************************************************************************)
EXTENDS TracePipeline, TracerFileProofs

Ids == Threads \cup {Unregistered}

(***************************************************************************)
(* The lines read                                                          *)
(***************************************************************************)
Shows(content, tid, now) ==
  \E i \in DOMAIN content : content[i].tid = tid /\ content[i].time = now

HasLine(content, tid, what) ==
  \E i \in DOMAIN content : content[i].tid = tid /\ content[i].what = what

\* A thread that has registered and not finished.
IsOpen(content, tid) == HasLine(content, tid, "tr") /\ ~HasLine(content, tid, "tf")

\* A line that may come next in a file of the pintool's.
Follows(content, line) ==
  /\ line \in Lines /\ line.time > 0
  /\ \A i \in DOMAIN content : content[i].tid = line.tid => content[i].time < line.time
  /\ line.what = "tr" => \A i \in DOMAIN content : content[i].tid # line.tid
  /\ line.tid = Unregistered => line.what \notin {"tr", "tf"}
  /\ line.tid # Unregistered /\ line.what # "tr" => IsOpen(content, line.tid)

(***************************************************************************)
(* The invariant of the merge utility                                      *)
(***************************************************************************)
\* The list of times, the number of threads and the cached time are those of
\* the open threads.
ListInv ==
  /\ lines_read \in Seq(Lines)
  /\ \A t : t \in DOMAIN tt_list <=> IsOpen(lines_read, t)
  /\ \A t \in DOMAIN tt_list : tt_list[t] \in Nat /\ Shows(lines_read, t, tt_list[t])
  /\ IsFiniteSet(DOMAIN tt_list) /\ active_threads = Cardinality(DOMAIN tt_list)

CacheInv ==
  /\ safe_cache \in Nat
  /\ \A t \in DOMAIN tt_list : safe_cache <= tt_list[t]

\* A queue has lines of its thread in the order of their times, and is
\* finished only if the thread is.
QueueOK(content, tid, q) ==
  /\ q \in [entries : Seq(Lines), max_timestamp : Nat, finished : BOOLEAN]
  /\ q.max_timestamp = 0 \/ Shows(content, tid, q.max_timestamp)
  /\ q.finished => tid # Unregistered /\ HasLine(content, tid, "tf")
  /\ \A i \in DOMAIN q.entries :
       /\ q.entries[i].tid = tid
       /\ q.entries[i].time <= q.max_timestamp
       /\ \A j \in DOMAIN q.entries : j < i => q.entries[j].time < q.entries[i].time

QueueInv == \A tid \in DOMAIN queues : QueueOK(lines_read, tid, queues[tid])

\* The head of each queue that has one, as the heap holds it.
HeadsOf(qs) ==
  {<<Head(qs[tid].entries).time, tid>> : tid \in {x \in DOMAIN qs : qs[x].entries # <<>>}}

HeapInv == time_threadid_min = Utility!SetToBag(HeadsOf(queues))

Queued == Utility!Queued

\* What is queued when the next line is read.
RestInv ==
  /\ merge_pc \in {"read", "merge", "done"}
  /\ merge_pc = "read" /\ DOMAIN tt_list = {} => Queued = {}
  /\ merge_pc = "done" => Queued = {}

\* The lines read, but for those that only synchronise, are in the output or
\* in a queue, and in one of the two.
ContentsInv ==
  /\ out \in Seq(Lines)
  /\ \A line : line \in Queued \/ (\E i \in DOMAIN out : out[i] = line) <=>
       \E i \in DOMAIN lines_read : lines_read[i] = line /\ line.what # "thread_sync"
  /\ \A i \in DOMAIN out : out[i] \notin Queued

UtilityInv ==
  ListInv /\ CacheInv /\ QueueInv /\ HeapInv /\ RestInv /\ ContentsInv

(***************************************************************************)
(* Bags and functions                                                      *)
(***************************************************************************)
LEMMA BagAdd ==
  ASSUME NEW S, NEW e, e \notin S
  PROVE  Utility!(+)(Utility!SetToBag(S), Utility!SetToBag({e})) = Utility!SetToBag(S \cup {e})
  BY DEF Utility!SetToBag, Utility!(+)

LEMMA BagRemove ==
  ASSUME NEW S, NEW e \in S
  PROVE  Utility!(-)(Utility!SetToBag(S), Utility!SetToBag({e})) = Utility!SetToBag(S \ {e})
<1> DEFINE B == [x \in S |-> IF x = e THEN 0 ELSE 1]
<1>1. Utility!(-)(Utility!SetToBag(S), Utility!SetToBag({e}))
        = [x \in {d \in DOMAIN B : B[d] > 0} |-> B[x]]
  BY DEF Utility!SetToBag, Utility!(-)
<1>2. {d \in DOMAIN B : B[d] > 0} = S \ {e}
  OBVIOUS
<1> QED BY <1>1, <1>2 DEF Utility!SetToBag

LEMMA BagEmpty ==
  ASSUME NEW S
  PROVE  Utility!SetToBag(S) = Utility!EmptyBag <=> S = {}
<1>1. DOMAIN Utility!SetToBag(S) = S /\ DOMAIN Utility!EmptyBag = {}
  BY DEF Utility!SetToBag, Utility!EmptyBag
<1> QED BY <1>1 DEF Utility!EmptyBag, Utility!SetToBag

LEMMA DropAll ==
  ASSUME NEW f, NEW x, DOMAIN f \subseteq {x}
  PROVE  Utility!Drop(f, x) = <<>>
<1>1. Utility!Drop(f, x) = [y \in {} |-> f[y]]
  BY DEF Utility!Drop
<1> QED BY <1>1

(***************************************************************************)
(* A line more                                                             *)
(***************************************************************************)
LEMMA LineFields ==
  ASSUME NEW line \in Lines
  PROVE  line.time \in Nat /\ line.tid \in Ids
  BY DEF Lines, Ids

\* The positions of a sequence of lines that grows.
LEMMA AppendLines ==
  ASSUME NEW content \in Seq(Lines), NEW line \in Lines
  PROVE  /\ Append(content, line) \in Seq(Lines)
         /\ DOMAIN Append(content, line) = DOMAIN content \cup {Len(content) + 1}
         /\ Len(content) + 1 \notin DOMAIN content
         /\ \A i \in DOMAIN content : Append(content, line)[i] = content[i]
         /\ Append(content, line)[Len(content) + 1] = line
         /\ Len(Append(content, line)) = Len(content) + 1
<1>1. /\ Append(content, line) \in Seq(Lines) /\ Len(Append(content, line)) = Len(content) + 1
      /\ \A i \in 1 .. Len(content) : Append(content, line)[i] = content[i]
      /\ Append(content, line)[Len(content) + 1] = line
  BY AppendProperties
<1>2. /\ DOMAIN Append(content, line) = 1 .. Len(content) + 1
      /\ DOMAIN content = 1 .. Len(content) /\ Len(content) \in Nat
  BY <1>1, LenProperties
<1> QED BY <1>1, <1>2

LEMMA AppendShows ==
  ASSUME NEW content \in Seq(Lines), NEW line \in Lines, NEW tid, NEW x
  PROVE  /\ Shows(Append(content, line), tid, x) <=>
              Shows(content, tid, x) \/ (line.tid = tid /\ line.time = x)
         /\ HasLine(Append(content, line), tid, x) <=>
              HasLine(content, tid, x) \/ (line.tid = tid /\ line.what = x)
<1> DEFINE new == Append(content, line)
<1>1. /\ DOMAIN new = DOMAIN content \cup {Len(content) + 1}
      /\ \A i \in DOMAIN content : new[i] = content[i]
      /\ new[Len(content) + 1] = line
  BY AppendLines
<1> HIDE DEF new
<1>2. Shows(new, tid, x) <=> Shows(content, tid, x) \/ (line.tid = tid /\ line.time = x)
  BY <1>1 DEF Shows
<1>3. HasLine(new, tid, x) <=> HasLine(content, tid, x) \/ (line.tid = tid /\ line.what = x)
  BY <1>1 DEF HasLine
<1> QED BY <1>2, <1>3 DEF new

(***************************************************************************)
(* A queue                                                                 *)
(***************************************************************************)
\* The positions of a sequence and of its tail.
LEMMA TailLines ==
  ASSUME NEW s \in Seq(Lines), s # <<>>
  PROVE  /\ 1 \in DOMAIN s /\ Head(s) = s[1] /\ Head(s) \in Lines
         /\ Tail(s) \in Seq(Lines)
         /\ \A i \in DOMAIN Tail(s) :
              i \in Nat /\ i >= 1 /\ i + 1 \in DOMAIN s /\ Tail(s)[i] = s[i + 1]
         /\ \A i \in DOMAIN s : i \in Nat /\ (i = 1 \/ i - 1 \in DOMAIN Tail(s))
<1>1. /\ Len(s) \in Nat /\ Len(s) # 0 /\ DOMAIN s = 1 .. Len(s)
      /\ \A i \in 1 .. Len(s) : s[i] \in Lines
  BY LenProperties, EmptySeq, ElementOfSeq
<1>2. /\ Tail(s) \in Seq(Lines) /\ Len(Tail(s)) = Len(s) - 1
      /\ \A i \in 1 .. Len(Tail(s)) : Tail(s)[i] = s[i + 1]
      /\ Head(s) = s[1]
  BY HeadTailProperties
<1>3. DOMAIN Tail(s) = 1 .. Len(s) - 1
  BY <1>2, LenProperties
<1> QED BY <1>1, <1>2, <1>3

LEMMA EmptyQueueOK ==
  ASSUME NEW content, NEW tid
  PROVE  QueueOK(content, tid, Utility!NewQueue)
<1>1. <<>> \in Seq(Lines) /\ DOMAIN <<>> = {}
  OBVIOUS
<1> QED BY <1>1 DEF QueueOK, Utility!NewQueue

\* A queue without its first line is still in order.
LEMMA PopOK ==
  ASSUME NEW content, NEW tid, NEW q, QueueOK(content, tid, q), q.entries # <<>>
  PROVE  QueueOK(content, tid, [q EXCEPT !.entries = Tail(q.entries)])
<1> DEFINE new == [q EXCEPT !.entries = Tail(q.entries)]
<1>1. /\ q \in [entries : Seq(Lines), max_timestamp : Nat, finished : BOOLEAN]
      /\ \A i \in DOMAIN q.entries :
           /\ q.entries[i].tid = tid
           /\ q.entries[i].time <= q.max_timestamp
           /\ \A j \in DOMAIN q.entries : j < i => q.entries[j].time < q.entries[i].time
  BY DEF QueueOK
<1>2. /\ Tail(q.entries) \in Seq(Lines)
      /\ \A i \in DOMAIN Tail(q.entries) :
           i \in Nat /\ i + 1 \in DOMAIN q.entries /\ Tail(q.entries)[i] = q.entries[i + 1]
  BY <1>1, TailLines
<1>3. /\ new \in [entries : Seq(Lines), max_timestamp : Nat, finished : BOOLEAN]
      /\ new.entries = Tail(q.entries) /\ new.max_timestamp = q.max_timestamp
      /\ new.finished = q.finished
  BY <1>1, <1>2
<1> HIDE DEF new
<1>4. ASSUME NEW i \in DOMAIN new.entries
      PROVE  /\ new.entries[i].tid = tid
             /\ new.entries[i].time <= new.max_timestamp
             /\ \A j \in DOMAIN new.entries :
                  j < i => new.entries[j].time < new.entries[i].time
  <2>1. /\ i \in Nat /\ i + 1 \in DOMAIN q.entries /\ new.entries[i] = q.entries[i + 1]
    BY <1>2, <1>3, <1>4
  <2>2. ASSUME NEW j \in DOMAIN new.entries, j < i
        PROVE  new.entries[j].time < new.entries[i].time
    <3>1. /\ j \in Nat /\ j + 1 \in DOMAIN q.entries /\ new.entries[j] = q.entries[j + 1]
      BY <1>2, <1>3, <2>2
    <3>2. j + 1 < i + 1
      BY <2>1, <2>2, <3>1
    <3> QED BY <1>1, <2>1, <3>1, <3>2
  <2> QED BY <1>1, <1>3, <2>1, <2>2
<1> QED BY <1>3, <1>4 DEF QueueOK, new

\* A line that may follow leaves a queue that does not take it as it is.
LEMMA KeepOK ==
  ASSUME NEW content \in Seq(Lines), NEW line \in Lines, NEW tid, NEW q, QueueOK(content, tid, q)
  PROVE  QueueOK(Append(content, line), tid, q)
<1>1. /\ Shows(content, tid, q.max_timestamp) =>
           Shows(Append(content, line), tid, q.max_timestamp)
      /\ HasLine(content, tid, "tf") => HasLine(Append(content, line), tid, "tf")
  BY AppendShows
<1> QED BY <1>1 DEF QueueOK

\* The queue that takes it is in order with it.
LEMMA EnqueueOK ==
  ASSUME NEW content \in Seq(Lines), NEW line \in Lines, NEW q, QueueOK(content, line.tid, q),
         Follows(content, line), Utility!MayEnqueue(q, line.time)
  PROVE  QueueOK(Append(content, line), line.tid, Utility!Enqueue(q, line, line.what = "tf"))
<1> DEFINE content2 == Append(content, line)
           tid == line.tid
           old == q.entries
           new == Append(q.entries, line)
           q2 == Utility!Enqueue(q, line, line.what = "tf")
<1>1. /\ Shows(content2, tid, line.time)
      /\ line.what = "tf" => tid # Unregistered /\ HasLine(content2, tid, "tf")
  BY AppendShows DEF Follows
<1>2. /\ line.time \in Nat /\ q.max_timestamp \in Nat /\ q.max_timestamp < line.time
  BY LineFields DEF QueueOK, Utility!MayEnqueue
<1>3. /\ old \in Seq(Lines)
      /\ \A i \in DOMAIN old :
           /\ old[i].tid = tid
           /\ old[i].time <= q.max_timestamp
           /\ \A j \in DOMAIN old : j < i => old[j].time < old[i].time
  BY DEF QueueOK
<1>4. /\ new \in Seq(Lines) /\ DOMAIN new = DOMAIN old \cup {Len(old) + 1}
      /\ \A i \in DOMAIN old : new[i] = old[i] /\ i \in 1 .. Len(old)
      /\ new[Len(old) + 1] = line
      /\ Len(old) \in Nat
  BY <1>3, AppendLines, FileLines
<1>5. q2 \in [entries : Seq(Lines), max_timestamp : Nat, finished : BOOLEAN]
  BY <1>2, <1>4 DEF Utility!Enqueue
<1>6. q2.max_timestamp = line.time /\ q2.entries = new /\ (q2.finished <=> line.what = "tf")
  BY DEF Utility!Enqueue
<1> HIDE DEF new, old, q2, content2, tid
<1>7. \A j \in DOMAIN old : old[j].time \in Nat /\ old[j].time < line.time
  <2>1. \A j \in DOMAIN old : old[j].time \in Nat
    BY <1>3, FileLines
  <2> QED BY <1>2, <1>3, <2>1
<1>8. ASSUME NEW i \in DOMAIN new
      PROVE  /\ new[i].tid = tid
             /\ new[i].time <= line.time
             /\ \A j \in DOMAIN new : j < i => new[j].time < new[i].time
  <2>1. CASE i \in DOMAIN old
    <3>1. new[i] = old[i] /\ new[i].tid = tid /\ new[i].time <= line.time
      BY <1>2, <1>3, <1>4, <1>7, <2>1
    <3>2. ASSUME NEW j \in DOMAIN new, j < i PROVE j \in DOMAIN old
      BY <1>4, <2>1, <3>2
    <3> QED BY <1>3, <1>4, <2>1, <3>1, <3>2
  <2>2. CASE i = Len(old) + 1
    <3>1. new[i] = line
      BY <1>4, <2>2
    <3>2. ASSUME NEW j \in DOMAIN new, j < i PROVE new[j].time < line.time
      <4>1. j \in DOMAIN old
        BY <1>4, <2>2, <3>2
      <4> QED BY <1>4, <1>7, <4>1
    <3> QED BY <1>2, <3>1, <3>2 DEF tid
  <2> QED BY <1>4, <2>1, <2>2
<1>9. QueueOK(content2, tid, q2)
  BY <1>1, <1>5, <1>6, <1>8 DEF QueueOK
<1> QED BY <1>9 DEF content2, tid, q2

\* The first line of a queue is its earliest, and the only one of its time.
LEMMA HeadIsLeast ==
  ASSUME NEW content, NEW tid, NEW q, QueueOK(content, tid, q), q.entries # <<>>
  PROVE  /\ 1 \in DOMAIN q.entries /\ Head(q.entries) = q.entries[1]
         /\ Head(q.entries) \in Lines /\ Head(q.entries).tid = tid
         /\ \A i \in DOMAIN q.entries : i # 1 => Head(q.entries).time < q.entries[i].time
         /\ \A i \in DOMAIN q.entries : Head(q.entries).time <= q.entries[i].time
<1>1. /\ q.entries \in Seq(Lines)
      /\ \A i \in DOMAIN q.entries :
           /\ q.entries[i].tid = tid
           /\ \A j \in DOMAIN q.entries : j < i => q.entries[j].time < q.entries[i].time
  BY DEF QueueOK
<1>2. /\ 1 \in DOMAIN q.entries /\ Head(q.entries) = q.entries[1]
      /\ Head(q.entries) \in Lines
      /\ \A i \in DOMAIN q.entries : i \in Nat /\ (i = 1 \/ 1 < i)
  BY <1>1, TailLines, FileLines
<1>3. \A i \in DOMAIN q.entries : q.entries[i].time \in Nat
  BY <1>1, FileLines
<1>4. ASSUME NEW i \in DOMAIN q.entries, i # 1 PROVE Head(q.entries).time < q.entries[i].time
  <2>1. 1 < i
    BY <1>2, <1>4
  <2> QED BY <1>1, <1>2, <2>1
<1> QED BY <1>1, <1>2, <1>3, <1>4

(***************************************************************************)
(* The heap                                                                *)
(***************************************************************************)
LEMMA HeadsMean ==
  ASSUME NEW qs
  PROVE  \A e : e \in HeadsOf(qs) <=>
           \E tid \in DOMAIN qs : qs[tid].entries # <<>> /\ e = <<Head(qs[tid].entries).time, tid>>
  BY DEF HeadsOf

LEMMA QueuedMean ==
  \A x : x \in Queued <=>
    \E tid \in DOMAIN queues : \E i \in DOMAIN queues[tid].entries : x = queues[tid].entries[i]
  BY DEF Queued, Utility!Queued, Utility!Entries

\* The heap, when it has the heads of the queues: its top is the head of its
\* queue, and nothing queued is earlier.
LEMMA HeapMeans ==
  ASSUME QueueInv, HeapInv
  PROVE  /\ time_threadid_min = Utility!EmptyBag <=> Queued = {}
         /\ \A e : Utility!IsTop(e) =>
              /\ e \in HeadsOf(queues) /\ Utility!IsHead(e)
              /\ e = <<Head(queues[e[2]].entries).time, e[2]>>
              /\ e[1] \in Nat
              /\ \A line \in Queued : e[1] <= line.time
<1>1. \A tid \in DOMAIN queues : QueueOK(lines_read, tid, queues[tid])
  BY DEF QueueInv
<1>2. \A x : x \in Queued <=> \E tid \in DOMAIN queues :
                                 \E i \in DOMAIN queues[tid].entries : x = queues[tid].entries[i]
  BY QueuedMean
<1>3. Utility!BagToSet(time_threadid_min) = HeadsOf(queues)
  BY DEF HeapInv, Utility!BagToSet, Utility!SetToBag
<1>4. \A tid \in DOMAIN queues : \A i \in DOMAIN queues[tid].entries :
        queues[tid].entries # <<>>
  OBVIOUS
<1>5. HeadsOf(queues) = {} <=> Queued = {}
  <2>1. ASSUME HeadsOf(queues) = {} PROVE Queued = {}
    BY <1>2, <1>4, <2>1, HeadsMean
  <2>2. ASSUME HeadsOf(queues) # {} PROVE Queued # {}
    <3>1. PICK tid \in DOMAIN queues : queues[tid].entries # <<>>
      BY <2>2, HeadsMean
    <3>2. 1 \in DOMAIN queues[tid].entries
      BY <1>1, <3>1, HeadIsLeast
    <3> QED BY <1>2, <3>2
  <2> QED BY <2>1, <2>2
<1>6. ASSUME NEW e, Utility!IsTop(e)
      PROVE  /\ e \in HeadsOf(queues) /\ Utility!IsHead(e)
             /\ e = <<Head(queues[e[2]].entries).time, e[2]>>
             /\ e[1] \in Nat
             /\ \A line \in Queued : e[1] <= line.time
  <2>1. e \in HeadsOf(queues) /\ \A other \in HeadsOf(queues) : e[1] <= other[1]
    BY <1>3, <1>6 DEF Utility!IsTop, Utility!BagIn
  <2>2. PICK t \in DOMAIN queues :
          queues[t].entries # <<>> /\ e = <<Head(queues[t].entries).time, t>>
    BY <2>1, HeadsMean
  <2>3. e[1] \in Nat
    BY <1>1, <2>2, HeadIsLeast, LineFields
  <2>4. ASSUME NEW line \in Queued PROVE e[1] <= line.time
    <3> PICK tid \in DOMAIN queues :
          \E i \in DOMAIN queues[tid].entries : line = queues[tid].entries[i]
      BY <1>2, <2>4
    <3>1. PICK i \in DOMAIN queues[tid].entries : line = queues[tid].entries[i]
      OBVIOUS
    <3>2. /\ queues[tid].entries # <<>>
          /\ Head(queues[tid].entries).time <= line.time
          /\ Head(queues[tid].entries).time \in Nat
      BY <1>1, <1>4, <3>1, HeadIsLeast, LineFields
    <3>3. <<Head(queues[tid].entries).time, tid>> \in HeadsOf(queues)
      BY <3>2, HeadsMean
    <3>4. e[1] <= Head(queues[tid].entries).time
      BY <2>1, <3>3
    <3>5. line.time \in Nat
      <4>1. queues[tid].entries \in Seq(Lines)
        BY <1>1 DEF QueueOK
      <4> QED BY <3>1, <4>1, FileLines
    <3> QED BY <2>3, <3>2, <3>4, <3>5
  <2>5. Utility!IsHead(e) /\ e = <<Head(queues[e[2]].entries).time, e[2]>>
    BY <2>2 DEF Utility!IsHead
  <2> QED BY <2>1, <2>3, <2>4, <2>5
<1> QED BY <1>3, <1>5, <1>6, BagEmpty DEF HeapInv

(***************************************************************************)
(* A line that goes out                                                    *)
(***************************************************************************)
\* The entry at the top of the heap goes: the queues and the heap lose it.
LEMMA MergeEntryStep ==
  ASSUME QueueInv, HeapInv, NEW e, Utility!IsTop(e), Utility!MergeEntry(e)
  PROVE  /\ QueueInv' /\ HeapInv'
         /\ Head(queues[e[2]].entries) \in Queued /\ Head(queues[e[2]].entries) \in Lines
         /\ Head(queues[e[2]].entries).time = e[1]
         /\ Queued' = Queued \ {Head(queues[e[2]].entries)}
<1> DEFINE tid == e[2]
           q == queues[tid]
           line == Head(q.entries)
           left == Tail(q.entries)
           q2 == [q EXCEPT !.entries = left]
           next == <<Head(left).time, tid>>
<1>1. /\ e \in HeadsOf(queues) /\ e = <<line.time, tid>> /\ tid \in DOMAIN queues
      /\ q.entries # <<>>
  BY HeapMeans DEF Utility!IsHead
<1>2. QueueOK(lines_read, tid, q) /\ QueueOK(lines_read, tid, q2)
  <2>1. QueueOK(lines_read, tid, q)
    BY <1>1 DEF QueueInv
  <2> QED BY <1>1, <2>1, PopOK
<1>3. /\ q.entries \in Seq(Lines)
      /\ q \in [entries : Seq(Lines), max_timestamp : Nat, finished : BOOLEAN]
      /\ q2.entries = left
  BY <1>2 DEF QueueOK
<1>4. /\ DOMAIN queues' = IF left = <<>> /\ q.finished THEN DOMAIN queues \ {tid}
                          ELSE DOMAIN queues
      /\ \A t \in DOMAIN queues' : queues'[t] = IF t = tid THEN q2 ELSE queues[t]
      /\ lines_read' = lines_read
      /\ time_threadid_min' =
           IF left = <<>> THEN Utility!(-)(time_threadid_min, Utility!SetToBag({e}))
           ELSE Utility!(+)(Utility!(-)(time_threadid_min, Utility!SetToBag({e})),
                            Utility!SetToBag({next}))
  BY <1>1 DEF Utility!MergeEntry, Utility!Drop
<1>5. /\ 1 \in DOMAIN q.entries /\ line = q.entries[1] /\ line \in Lines /\ line.tid = tid
      /\ \A i \in DOMAIN q.entries : i # 1 => line.time < q.entries[i].time
      /\ line.time \in Nat
  BY <1>1, <1>2, HeadIsLeast, LineFields
<1>6. /\ \A i \in DOMAIN left : i \in Nat /\ i >= 1 /\ i + 1 \in DOMAIN q.entries
                                /\ left[i] = q.entries[i + 1]
      /\ \A i \in DOMAIN q.entries : i \in Nat /\ (i = 1 \/ i - 1 \in DOMAIN left)
  BY <1>1, <1>3, TailLines
<1>7. \A t \in DOMAIN queues : \A i \in DOMAIN queues[t].entries : queues[t].entries[i].tid = t
  BY DEF QueueInv, QueueOK
<1> HIDE DEF left, q2, line, q, tid, next
<1>8. QueueInv'
  <2>1. \A t \in DOMAIN queues' : QueueOK(lines_read, t, queues'[t])
    BY <1>2, <1>4 DEF QueueInv
  <2> QED BY <1>4, <2>1 DEF QueueInv
<1>9. \A x : x \in Queued <=> \E t \in DOMAIN queues : \E i \in DOMAIN queues[t].entries :
                                x = queues[t].entries[i]
  BY QueuedMean
<1>10. \A x : x \in Queued' <=> \E t \in DOMAIN queues' : \E i \in DOMAIN queues'[t].entries :
                                  x = queues'[t].entries[i]
  BY DEF Queued, Utility!Queued, Utility!Entries
<1>11. line \in Queued
  BY <1>1, <1>5, <1>9 DEF q
<1>12. ASSUME NEW x \in Queued' PROVE x \in Queued /\ x # line
  <2> PICK t \in DOMAIN queues' : \E i \in DOMAIN queues'[t].entries : x = queues'[t].entries[i]
    BY <1>10, <1>12
  <2>1. PICK i \in DOMAIN queues'[t].entries : x = queues'[t].entries[i]
    OBVIOUS
  <2>2. CASE t = tid
    <3>1. i \in DOMAIN left /\ x = left[i]
      BY <1>3, <1>4, <2>1, <2>2
    <3>2. i + 1 \in DOMAIN q.entries /\ x = q.entries[i + 1] /\ i + 1 # 1
      BY <1>6, <3>1
    <3>3. line.time < x.time
      BY <1>5, <3>2
    <3> QED BY <1>1, <1>5, <1>9, <3>2, <3>3 DEF q
  <2>3. CASE t # tid
    <3>1. t \in DOMAIN queues /\ i \in DOMAIN queues[t].entries /\ x = queues[t].entries[i]
      BY <1>4, <2>1, <2>3
    <3>2. x.tid = t
      BY <1>7, <3>1
    <3> QED BY <1>5, <1>9, <2>3, <3>1, <3>2
  <2> QED BY <2>2, <2>3
<1>13. ASSUME NEW x \in Queued, x # line PROVE x \in Queued'
  <2> PICK t \in DOMAIN queues : \E i \in DOMAIN queues[t].entries : x = queues[t].entries[i]
    BY <1>9, <1>13
  <2>1. PICK i \in DOMAIN queues[t].entries : x = queues[t].entries[i]
    OBVIOUS
  <2>2. CASE t = tid
    <3>1. i \in DOMAIN q.entries /\ i # 1 /\ x = q.entries[i]
      BY <1>5, <1>13, <2>1, <2>2 DEF q
    <3>2. i \in Nat /\ i - 1 \in DOMAIN left
      BY <1>6, <3>1
    <3>3. left[i - 1] = x
      <4>1. left[i - 1] = q.entries[(i - 1) + 1] /\ (i - 1) + 1 = i
        BY <1>6, <3>2
      <4> QED BY <3>1, <4>1
    <3>4. left # <<>>
      BY <3>2
    <3>5. tid \in DOMAIN queues' /\ queues'[tid].entries = left
      BY <1>1, <1>3, <1>4, <3>4
    <3> QED BY <1>10, <3>2, <3>3, <3>5
  <2>3. CASE t # tid
    <3>1. t \in DOMAIN queues' /\ queues'[t] = queues[t]
      BY <1>4, <2>3
    <3> QED BY <1>10, <2>1, <3>1
  <2> QED BY <2>2, <2>3
<1>14. Queued' = Queued \ {line}
  <2> DEFINE A == Queued'  B == Queued
  <2>1. \A x : x \in A <=> x \in B /\ x # line
    BY <1>12, <1>13
  <2> HIDE DEF A, B
  <2>2. A = B \ {line}
    BY <2>1
  <2> QED BY <2>2 DEF A, B
<1>15. \A d : d \in HeadsOf(queues') <=>
                \/ d \in HeadsOf(queues) \ {e}
                \/ left # <<>> /\ d = next
  <2>1. ASSUME NEW d \in HeadsOf(queues')
        PROVE  d \in HeadsOf(queues) \ {e} \/ (left # <<>> /\ d = next)
    <3>1. PICK t \in DOMAIN queues' :
            queues'[t].entries # <<>> /\ d = <<Head(queues'[t].entries).time, t>>
      BY <2>1, HeadsMean
    <3>2. CASE t = tid
      BY <1>3, <1>4, <3>1, <3>2 DEF next
    <3>3. CASE t # tid
      <4>1. t \in DOMAIN queues /\ queues'[t] = queues[t]
        BY <1>4, <3>3
      <4>2. d \in HeadsOf(queues)
        BY <3>1, <4>1, HeadsMean
      <4>3. d[2] = t /\ e[2] = tid
        BY <3>1 DEF tid
      <4> QED BY <3>3, <4>2, <4>3
    <3> QED BY <3>2, <3>3
  <2>2. ASSUME NEW d \in HeadsOf(queues) \ {e} PROVE d \in HeadsOf(queues')
    <3>1. PICK t \in DOMAIN queues :
            queues[t].entries # <<>> /\ d = <<Head(queues[t].entries).time, t>>
      BY <2>2, HeadsMean
    <3>2. t # tid
      BY <1>1, <2>2, <3>1 DEF q, line
    <3>3. t \in DOMAIN queues' /\ queues'[t] = queues[t]
      BY <1>4, <3>2
    <3> QED BY <3>1, <3>3, HeadsMean
  <2>3. ASSUME left # <<>> PROVE next \in HeadsOf(queues')
    <3>1. tid \in DOMAIN queues' /\ queues'[tid].entries = left
      BY <1>1, <1>3, <1>4, <2>3
    <3> QED BY <2>3, <3>1, HeadsMean DEF next
  <2> QED BY <2>1, <2>2, <2>3
<1>16. next \notin HeadsOf(queues) \ {e}
  <2> SUFFICES ASSUME next \in HeadsOf(queues) PROVE next = e
    OBVIOUS
  <2>1. PICK t \in DOMAIN queues : next = <<Head(queues[t].entries).time, t>>
    BY HeadsMean
  <2>2. t = tid
    BY <2>1 DEF next
  <2> QED BY <1>1, <2>1, <2>2 DEF q, line
<1>17. Utility!(-)(time_threadid_min, Utility!SetToBag({e})) =
         Utility!SetToBag(HeadsOf(queues) \ {e})
  BY <1>1, BagRemove DEF HeapInv
<1>18. time_threadid_min' = Utility!SetToBag(HeadsOf(queues'))
  <2> DEFINE S == HeadsOf(queues)  S2 == HeadsOf(queues')
  <2>1. /\ \A d : d \in S2 <=> d \in S \ {e} \/ (left # <<>> /\ d = next)
        /\ next \notin S \ {e}
    BY <1>15, <1>16, Zenon
  <2> HIDE DEF S, S2
  <2>2. CASE left = <<>>
    <3> \A d : d \in S2 <=> d \in S \ {e}
      BY <2>1, <2>2, Zenon
    <3>1. S2 = S \ {e}
      OBVIOUS
    <3> QED BY <1>4, <1>17, <2>2, <3>1 DEF S, S2
  <2>3. CASE left # <<>>
    <3> \A d : d \in S2 <=> d \in (S \ {e}) \cup {next}
      <4>1. \A d : d \in S2 <=> d \in S \ {e} \/ d = next
        BY <2>1, <2>3, Zenon
      <4> QED BY <4>1
    <3>1. S2 = (S \ {e}) \cup {next}
      OBVIOUS
    <3>2. Utility!(+)(Utility!SetToBag(S \ {e}), Utility!SetToBag({next})) = Utility!SetToBag(S2)
      BY <2>1, <3>1, BagAdd
    <3> QED BY <1>4, <1>17, <2>3, <3>2 DEF S, S2
  <2> QED BY <2>2, <2>3
<1>19. HeapInv'
  BY <1>18 DEF HeapInv
<1> QED BY <1>1, <1>5, <1>8, <1>11, <1>14, <1>19 DEF line, q, tid

\* A step of merge() that writes a line: no line that is queued is earlier,
\* and every open thread is known to be past it.
Emits(line) ==
  /\ line \in Queued /\ line \in Lines
  /\ out' = Append(out, line) /\ Queued' = Queued \ {line}
  /\ \A other \in Queued : line.time <= other.time
  /\ \A t \in DOMAIN tt_list : line.time <= tt_list[t]
  /\ merge_pc = "merge" /\ merge_pc' \in {"read", "merge"}
  /\ merge_pc' = "read" => Queued' = {}
  /\ UNCHANGED <<lines_read, tt_list, safe_cache, active_threads>>

LEMMA NobodyOpen ==
  ASSUME ListInv, active_threads = 0
  PROVE  DOMAIN tt_list = {}
<1>1. IsFiniteSet(DOMAIN tt_list) /\ Cardinality(DOMAIN tt_list) = 0
  BY DEF ListInv
<1> QED BY <1>1, FS_EmptySet

LEMMA MergeTopStep ==
  ASSUME ListInv, CacheInv, QueueInv, HeapInv, Utility!MergeTop
  PROVE  /\ QueueInv' /\ HeapInv'
         /\ \E line \in Lines : Emits(line)
<1>1. PICK e : Utility!IsTop(e) /\ Utility!MayGo(e[1]) /\ merge_pc = "merge"
               /\ IF Utility!IsHead(e) THEN Utility!MergeEntry(e)
                  ELSE merge_pc' = "failed"
  BY DEF Utility!MergeTop
<1>2. Utility!IsHead(e) /\ e[1] \in Nat /\ \A line \in Queued : e[1] <= line.time
  BY <1>1, HeapMeans
<1>3. Utility!MergeEntry(e)
  BY <1>1, <1>2
<1> DEFINE line == Head(queues[e[2]].entries)
<1>4. /\ QueueInv' /\ HeapInv' /\ line \in Queued /\ line \in Lines /\ line.time = e[1]
      /\ Queued' = Queued \ {line}
  BY <1>1, <1>3, MergeEntryStep
<1>5. /\ out' = Append(out, line)
      /\ merge_pc' = IF time_threadid_min' = Utility!EmptyBag THEN "read" ELSE "merge"
      /\ UNCHANGED <<lines_read, tt_list, safe_cache, active_threads>>
  BY <1>3 DEF Utility!MergeEntry
<1>6. merge_pc' = "read" => Queued' = {}
  <2>1. time_threadid_min' = Utility!SetToBag(HeadsOf(queues)')
    BY <1>4 DEF HeapInv
  <2>2. ASSUME merge_pc' = "read" PROVE HeadsOf(queues)' = {}
    <3>1. Utility!SetToBag(HeadsOf(queues')) = Utility!EmptyBag
      BY <1>5, <2>1, <2>2
    <3> QED BY <3>1, BagEmpty
  <2>3. ASSUME merge_pc' = "read", NEW x \in Queued' PROVE FALSE
    <3>1. PICK t \in DOMAIN queues' : \E i \in DOMAIN queues'[t].entries : x = queues'[t].entries[i]
      BY <2>3 DEF Queued, Utility!Queued, Utility!Entries
    <3>2. queues'[t].entries # <<>>
      BY <3>1
    <3>3. <<Head(queues'[t].entries).time, t>> \in HeadsOf(queues')
      BY <3>1, <3>2, HeadsMean
    <3> QED BY <2>2, <2>3, <3>3
  <2> QED BY <2>3
<1>7. \A t \in DOMAIN tt_list : line.time <= tt_list[t]
  <2> SUFFICES ASSUME NEW t \in DOMAIN tt_list PROVE line.time <= tt_list[t]
    OBVIOUS
  <2>1. active_threads # 0
    BY NobodyOpen
  <2>2. e[1] <= safe_cache
    BY <1>1, <2>1 DEF Utility!MayGo
  <2>3. safe_cache \in Nat /\ safe_cache <= tt_list[t] /\ tt_list[t] \in Nat
    BY DEF CacheInv, ListInv
  <2>4. line.time = e[1]
    BY <1>4
  <2> HIDE DEF line
  <2> QED BY <1>2, <2>2, <2>3, <2>4
<1> HIDE DEF line
<1>8. Emits(line)
  <2>1. merge_pc' \in {"read", "merge"}
    BY <1>5
  <2> QED BY <1>1, <1>2, <1>4, <1>5, <1>6, <1>7, <2>1 DEF Emits
<1> QED BY <1>4, <1>8

LEMMA EmitContents ==
  ASSUME ContentsInv, NEW line \in Lines, Emits(line)
  PROVE  ContentsInv'
<1>1. /\ out \in Seq(Lines) /\ \A i \in DOMAIN out : out[i] \notin Queued
      /\ \A x : x \in Queued \/ (\E i \in DOMAIN out : out[i] = x) <=>
           \E i \in DOMAIN lines_read : lines_read[i] = x /\ x.what # "thread_sync"
  BY DEF ContentsInv
<1>2. /\ line \in Queued /\ out' = Append(out, line) /\ Queued' = Queued \ {line}
      /\ lines_read' = lines_read
  BY DEF Emits
<1>3. /\ out' \in Seq(Lines) /\ DOMAIN out' = DOMAIN out \cup {Len(out) + 1}
      /\ \A i \in DOMAIN out : out'[i] = out[i]
      /\ out'[Len(out) + 1] = line
  BY <1>1, <1>2, AppendLines
<1>4. \A x : (\E i \in DOMAIN out' : out'[i] = x) <=> (\E i \in DOMAIN out : out[i] = x) \/ x = line
  BY <1>3
<1>5. \A x : x \in Queued' \/ (\E i \in DOMAIN out' : out'[i] = x) <=>
             x \in Queued \/ (\E i \in DOMAIN out : out[i] = x)
  BY <1>2, <1>4
<1>6. \A i \in DOMAIN out' : out'[i] \notin Queued'
  BY <1>1, <1>2, <1>3
<1>7. \A x : x \in Queued' \/ (\E i \in DOMAIN out' : out'[i] = x) <=>
             \E i \in DOMAIN lines_read' : lines_read'[i] = x /\ x.what # "thread_sync"
  BY <1>1, <1>2, <1>5
<1> QED BY <1>3, <1>6, <1>7 DEF ContentsInv

(***************************************************************************)
(* A line that is read                                                     *)
(***************************************************************************)
LEMMA AcceptsNext ==
  ASSUME ListInv, QueueInv, NEW line, Follows(lines_read, line)
  PROVE  Utility!Accepts(line)
<1>1. line.what = "tf" => line.tid \in DOMAIN tt_list
  BY DEF Follows, ListInv
<1>2. Utility!MayEnqueue(Utility!QueueOf(line.tid), line.time)
  <2>1. CASE line.tid \in DOMAIN queues
    <3> DEFINE q == queues[line.tid]
    <3>1. /\ q.max_timestamp = 0 \/ Shows(lines_read, line.tid, q.max_timestamp)
          /\ q.finished => line.tid # Unregistered /\ HasLine(lines_read, line.tid, "tf")
      BY <2>1 DEF QueueInv, QueueOK
    <3> HIDE DEF q
    <3>2. line.time > q.max_timestamp
      BY <3>1 DEF Follows, Shows
    <3>3. ~q.finished
      BY <3>1 DEF Follows, HasLine, IsOpen
    <3> QED BY <2>1, <3>2, <3>3 DEF Utility!MayEnqueue, Utility!QueueOf, q
  <2>2. CASE line.tid \notin DOMAIN queues
    BY <2>2 DEF Utility!MayEnqueue, Utility!QueueOf, Utility!NewQueue, Follows
  <2> QED BY <2>1, <2>2
<1> QED BY <1>1, <1>2 DEF Utility!Accepts

LEMMA ReadList ==
  ASSUME ListInv, NEW line, Follows(lines_read, line), Utility!ReadLine(line)
  PROVE  ListInv'
<1> DEFINE tid == line.tid
<1>1. /\ lines_read \in Seq(Lines) /\ line \in Lines /\ lines_read' = Append(lines_read, line)
      /\ line.time \in Nat /\ tid \in Ids
      /\ tid >= 0 <=> tid # Unregistered
      /\ lines_read' \in Seq(Lines)
  <2>1. lines_read \in Seq(Lines) /\ line \in Lines /\ lines_read' = Append(lines_read, line)
    BY DEF ListInv, Follows, Utility!ReadLine
  <2>2. \A x \in Ids : x >= 0 <=> x # Unregistered
    BY ThreadsAssumption DEF Ids, Unregistered
  <2> QED BY <2>1, <2>2, LineFields, AppendLines
<1>2. /\ \A t : t \in DOMAIN tt_list <=> IsOpen(lines_read, t)
      /\ \A t \in DOMAIN tt_list : tt_list[t] \in Nat /\ Shows(lines_read, t, tt_list[t])
      /\ IsFiniteSet(DOMAIN tt_list) /\ active_threads = Cardinality(DOMAIN tt_list)
      /\ Cardinality(DOMAIN tt_list) \in Nat
  BY FS_CardinalityType DEF ListInv
<1>3. /\ active_threads' = CASE line.what = "tr" -> active_threads + 1
                             [] line.what = "tf" -> active_threads - 1
                             [] OTHER -> active_threads
      /\ line.what = "tf" => tt_list' = Utility!Drop(tt_list, tid)
      /\ line.what # "tf" /\ tid >= 0 => tt_list' = Utility!Put(tt_list, tid, line.time)
      /\ line.what # "tf" /\ ~(tid >= 0) => tt_list' = tt_list
  BY DEF Utility!ReadLine, Utility!ActiveAfter, Utility!FinishThread, Utility!SetTime
<1>4. /\ line.what = "tr" => tid # Unregistered /\ ~HasLine(lines_read, tid, "tr")
                             /\ ~HasLine(lines_read, tid, "tf")
      /\ line.what = "tf" => tid # Unregistered
      /\ tid # Unregistered /\ line.what # "tr" => IsOpen(lines_read, tid)
  BY DEF Follows, HasLine
<1>5. \A t, x : /\ Shows(lines_read', t, x) <=>
                     Shows(lines_read, t, x) \/ (tid = t /\ line.time = x)
                /\ HasLine(lines_read', t, x) <=>
                     HasLine(lines_read, t, x) \/ (tid = t /\ line.what = x)
  BY <1>1, AppendShows
<1>6. \A t : IsOpen(lines_read', t) <=>
               CASE line.what = "tr" -> IsOpen(lines_read, t) \/ t = tid
                 [] line.what = "tf" -> IsOpen(lines_read, t) /\ t # tid
                 [] OTHER -> IsOpen(lines_read, t)
  <2>1. \A t : /\ HasLine(lines_read', t, "tr") <=>
                    HasLine(lines_read, t, "tr") \/ (tid = t /\ line.what = "tr")
               /\ HasLine(lines_read', t, "tf") <=>
                    HasLine(lines_read, t, "tf") \/ (tid = t /\ line.what = "tf")
    BY <1>5
  <2> QED BY <1>4, <2>1 DEF IsOpen
<1> HIDE DEF tid
<1> DEFINE D == DOMAIN tt_list
<1>7. CASE line.what = "tr"
  <2>1. tt_list' = Utility!Put(tt_list, tid, line.time) /\ tid \notin D
    BY <1>1, <1>2, <1>3, <1>4, <1>7 DEF IsOpen
  <2>2. /\ DOMAIN tt_list' = D \cup {tid}
        /\ \A t \in D \cup {tid} : tt_list'[t] = IF t = tid THEN line.time ELSE tt_list[t]
    BY <2>1 DEF Utility!Put
  <2>3. \A t \in DOMAIN tt_list' : tt_list'[t] \in Nat /\ Shows(lines_read', t, tt_list'[t])
    BY <1>1, <1>2, <1>5, <2>2
  <2>4. IsFiniteSet(D \cup {tid}) /\ Cardinality(D \cup {tid}) = Cardinality(D) + 1
    BY <1>2, <2>1, FS_AddElement
  <2>5. \A t : t \in DOMAIN tt_list' <=> IsOpen(lines_read', t)
    BY <1>2, <1>6, <1>7, <2>2
  <2>6. active_threads' = Cardinality(DOMAIN tt_list') /\ IsFiniteSet(DOMAIN tt_list')
    BY <1>2, <1>3, <1>7, <2>2, <2>4
  <2> QED BY <1>1, <2>3, <2>5, <2>6 DEF ListInv, IsOpen, HasLine, Shows
<1>8. CASE line.what = "tf"
  <2>1. tt_list' = Utility!Drop(tt_list, tid) /\ tid \in D
    BY <1>2, <1>3, <1>4, <1>8
  <2>2. /\ DOMAIN tt_list' = D \ {tid}
        /\ \A t \in D \ {tid} : tt_list'[t] = tt_list[t]
    BY <2>1 DEF Utility!Drop
  <2>3. \A t \in DOMAIN tt_list' : tt_list'[t] \in Nat /\ Shows(lines_read', t, tt_list'[t])
    BY <1>1, <1>2, <1>5, <2>2
  <2>4. IsFiniteSet(D \ {tid}) /\ Cardinality(D \ {tid}) = Cardinality(D) - 1
    BY <1>2, <2>1, FS_RemoveElement
  <2>5. \A t : t \in DOMAIN tt_list' <=> IsOpen(lines_read', t)
    <3>1. \A t : IsOpen(lines_read', t) <=> IsOpen(lines_read, t) /\ t # tid
      BY <1>6, <1>8
    <3> QED BY <1>2, <2>2, <3>1
  <2>6. active_threads' = Cardinality(DOMAIN tt_list') /\ IsFiniteSet(DOMAIN tt_list')
    <3>1. active_threads' = active_threads - 1
      BY <1>3, <1>8
    <3> QED BY <1>2, <2>2, <2>4, <3>1
  <2> QED BY <1>1, <2>3, <2>5, <2>6 DEF ListInv, IsOpen, HasLine, Shows
<1>9. CASE line.what \notin {"tr", "tf"}
  <2>1. active_threads' = active_threads /\ \A t : IsOpen(lines_read', t) <=> IsOpen(lines_read, t)
    BY <1>3, <1>6, <1>9
  <2>2. DOMAIN tt_list' = D /\ \A t \in D : tt_list'[t] = tt_list[t] \/
                                            (t = tid /\ tt_list'[t] = line.time)
    <3>1. CASE tid >= 0
      <4>1. tt_list' = Utility!Put(tt_list, tid, line.time) /\ tid \in D
        BY <1>1, <1>2, <1>3, <1>4, <1>9, <3>1
      <4> QED BY <4>1 DEF Utility!Put
    <3>2. CASE ~(tid >= 0)
      BY <1>3, <1>9, <3>2
    <3> QED BY <3>1, <3>2
  <2>3. \A t \in DOMAIN tt_list' : tt_list'[t] \in Nat /\ Shows(lines_read', t, tt_list'[t])
    BY <1>1, <1>2, <1>5, <2>2
  <2>4. \A t : t \in DOMAIN tt_list' <=> IsOpen(lines_read', t)
    BY <1>2, <2>1, <2>2
  <2>5. active_threads' = Cardinality(DOMAIN tt_list') /\ IsFiniteSet(DOMAIN tt_list')
    BY <1>2, <2>1, <2>2
  <2> QED BY <1>1, <2>3, <2>4, <2>5 DEF ListInv, IsOpen, HasLine, Shows
<1> QED BY <1>7, <1>8, <1>9

\* The least of the times in a list that has any.
LEMMA UpdatedIsLeast ==
  ASSUME NEW f, \A t \in DOMAIN f : f[t] \in Nat, DOMAIN f = {} => f = <<>>,
         safe_cache \in Nat
  PROVE  /\ Utility!UpdatedCache(f) \in Nat
         /\ \A t \in DOMAIN f : Utility!UpdatedCache(f) <= f[t]
<1> DEFINE S == {f[t] : t \in DOMAIN f}
<1>1. CASE DOMAIN f = {}
  BY <1>1 DEF Utility!UpdatedCache
<1>2. CASE DOMAIN f # {}
  <2>1. S \subseteq Nat /\ S # {} /\ \A t \in DOMAIN f : f[t] \in S
    BY <1>2
  <2>2. Utility!UpdatedCache(f) = Utility!Smallest(S)
    <3>1. f # <<>>
      BY <1>2
    <3> QED BY <3>1 DEF Utility!UpdatedCache
  <2> HIDE DEF S
  <2>3. \E n \in S : Utility!IsLeast(n, S)
    BY <2>1, LeastNumber DEF Utility!IsLeast
  <2>4. Utility!Smallest(S) \in S /\ \A x \in S : Utility!Smallest(S) <= x
    BY <2>3 DEF Utility!Smallest, Utility!IsLeast
  <2> QED BY <2>1, <2>2, <2>4
<1> QED BY <1>1, <1>2

LEMMA ReadCache ==
  ASSUME ListInv, CacheInv, NEW line, Follows(lines_read, line), Utility!ReadLine(line)
  PROVE  CacheInv'
<1> DEFINE tid == line.tid
<1>1. ListInv'
  BY ReadList
<1>2. \A t \in DOMAIN tt_list : tt_list[t] \in Nat /\ Shows(lines_read, t, tt_list[t])
  BY DEF ListInv
<1>3. \A t \in DOMAIN tt_list' : tt_list'[t] \in Nat
  BY <1>1 DEF ListInv
<1>4. safe_cache \in Nat /\ \A t \in DOMAIN tt_list : safe_cache <= tt_list[t]
  BY DEF CacheInv
<1>5. CASE safe_cache' = Utility!UpdatedCache(tt_list') /\ (DOMAIN tt_list' = {} => tt_list' = <<>>)
  <2> DEFINE f == tt_list'
  <2>1. (\A t \in DOMAIN f : f[t] \in Nat) /\ safe_cache' = Utility!UpdatedCache(f)
        /\ (DOMAIN f = {} => f = <<>>)
    BY <1>3, <1>5
  <2> HIDE DEF f
  <2>2. safe_cache' \in Nat /\ \A t \in DOMAIN f : safe_cache' <= f[t]
    BY <1>4, <2>1, UpdatedIsLeast
  <2> QED BY <2>2 DEF CacheInv, f
<1>6. CASE line.what = "tf"
  <2>1. safe_cache' = Utility!UpdatedCache(tt_list') /\ tt_list' = Utility!Drop(tt_list, tid)
    BY <1>6 DEF Utility!ReadLine, Utility!FinishThread
  <2>2. DOMAIN tt_list' = DOMAIN tt_list \ {tid}
    BY <2>1 DEF Utility!Drop
  <2>3. DOMAIN tt_list' = {} => tt_list' = <<>>
    BY <2>1, <2>2, DropAll
  <2> QED BY <1>5, <2>1, <2>3
<1>7. CASE line.what # "tf" /\ tid >= 0
  <2>1. /\ tt_list' = Utility!Put(tt_list, tid, line.time)
        /\ safe_cache' = IF Utility!NeedUpdate(tid) THEN Utility!UpdatedCache(tt_list')
                         ELSE safe_cache
    BY <1>7 DEF Utility!ReadLine, Utility!SetTime
  <2>2. DOMAIN tt_list' # {}
    BY <2>1 DEF Utility!Put
  <2>3. CASE Utility!NeedUpdate(tid)
    BY <1>5, <2>1, <2>2, <2>3
  <2>4. CASE ~Utility!NeedUpdate(tid)
    <3>1. tid \in DOMAIN tt_list /\ safe_cache' = safe_cache
      BY <2>1, <2>4 DEF Utility!NeedUpdate
    <3>2. /\ DOMAIN tt_list' = DOMAIN tt_list
          /\ \A t \in DOMAIN tt_list : tt_list'[t] = IF t = tid THEN line.time ELSE tt_list[t]
      BY <2>1, <3>1 DEF Utility!Put
    <3>3. line.time > tt_list[tid] /\ line.time \in Nat
      BY <1>2, <3>1, LineFields DEF Follows, Shows
    <3>4. safe_cache <= line.time
      BY <1>2, <1>4, <3>1, <3>3
    <3>5. \A t \in DOMAIN tt_list' : safe_cache <= tt_list'[t]
      BY <1>4, <3>2, <3>4
    <3> QED BY <1>4, <3>1, <3>5 DEF CacheInv
  <2> QED BY <2>3, <2>4
<1>8. CASE line.what # "tf" /\ ~(tid >= 0)
  <2>1. tt_list' = tt_list /\ safe_cache' = safe_cache
    BY <1>8 DEF Utility!ReadLine
  <2> QED BY <1>4, <2>1 DEF CacheInv
<1> QED BY <1>6, <1>7, <1>8

LEMMA ReadQueued ==
  ASSUME QueueInv, NEW line \in Lines, Utility!ReadLine(line)
  PROVE  Queued' = IF line.what = "thread_sync" THEN Queued ELSE Queued \cup {line}
<1> DEFINE tid == line.tid
           q == Utility!QueueOf(line.tid)
           q2 == Utility!Enqueue(q, line, line.what = "tf")
<1>1. CASE line.what = "thread_sync"
  <2>1. queues' = queues
    BY <1>1 DEF Utility!ReadLine
  <2>2. Queued' = Queued
    BY <2>1 DEF Queued, Utility!Queued, Utility!Entries
  <2> QED BY <1>1, <2>2
<1>2. CASE line.what # "thread_sync"
  <2>1. queues' = Utility!Put(queues, tid, q2)
    BY <1>2 DEF Utility!ReadLine
  <2>2. /\ DOMAIN queues' = DOMAIN queues \cup {tid}
        /\ queues'[tid] = q2
        /\ \A t \in DOMAIN queues : t # tid => queues'[t] = queues[t]
    BY <2>1 DEF Utility!Put
  <2>3. /\ q2.entries = Append(q.entries, line) /\ q.entries \in Seq(Lines)
        /\ tid \in DOMAIN queues => q = queues[tid]
        /\ tid \notin DOMAIN queues => q.entries = <<>>
    <3>1. CASE tid \in DOMAIN queues
      BY <3>1 DEF QueueInv, QueueOK, Utility!QueueOf, Utility!Enqueue
    <3>2. CASE tid \notin DOMAIN queues
      <4>1. <<>> \in Seq(Lines)
        OBVIOUS
      <4> QED BY <3>2, <4>1 DEF Utility!QueueOf, Utility!NewQueue, Utility!Enqueue
    <3> QED BY <3>1, <3>2
  <2>4. /\ DOMAIN q2.entries = DOMAIN q.entries \cup {Len(q.entries) + 1}
        /\ \A i \in DOMAIN q.entries : q2.entries[i] = q.entries[i]
        /\ q2.entries[Len(q.entries) + 1] = line
    BY <2>3, AppendLines
  <2>5. \A x : x \in Queued <=> \E t \in DOMAIN queues : \E i \in DOMAIN queues[t].entries :
                                  x = queues[t].entries[i]
    BY QueuedMean
  <2>6. \A x : x \in Queued' <=> \E t \in DOMAIN queues' : \E i \in DOMAIN queues'[t].entries :
                                    x = queues'[t].entries[i]
    BY DEF Queued, Utility!Queued, Utility!Entries
  <2> HIDE DEF q, q2, tid
  <2>7. ASSUME NEW x \in Queued' PROVE x \in Queued \/ x = line
    <3> PICK t \in DOMAIN queues' : \E i \in DOMAIN queues'[t].entries : x = queues'[t].entries[i]
      BY <2>6, <2>7
    <3>1. PICK i \in DOMAIN queues'[t].entries : x = queues'[t].entries[i]
      OBVIOUS
    <3>2. CASE t # tid
      BY <2>2, <2>5, <3>1, <3>2
    <3>3. CASE t = tid /\ i \notin DOMAIN q.entries
      BY <2>2, <2>4, <3>1, <3>3
    <3>4. CASE t = tid /\ i \in DOMAIN q.entries
      <4>1. x = q.entries[i] /\ tid \in DOMAIN queues
        BY <2>2, <2>3, <2>4, <3>1, <3>4
      <4> QED BY <2>3, <2>5, <3>4, <4>1
    <3> QED BY <3>2, <3>3, <3>4
  <2>8. line \in Queued'
    BY <2>2, <2>4, <2>6
  <2>9. ASSUME NEW x \in Queued PROVE x \in Queued'
    <3> PICK t \in DOMAIN queues : \E i \in DOMAIN queues[t].entries : x = queues[t].entries[i]
      BY <2>5, <2>9
    <3>1. PICK i \in DOMAIN queues[t].entries : x = queues[t].entries[i]
      OBVIOUS
    <3>2. CASE t # tid
      BY <2>2, <2>6, <3>1, <3>2
    <3>3. CASE t = tid
      BY <2>2, <2>3, <2>4, <2>6, <3>1, <3>3
    <3> QED BY <3>2, <3>3
  <2>10. Queued' = Queued \cup {line}
    <3> DEFINE A == Queued'  B == Queued
    <3>1. \A x : x \in A <=> x \in B \cup {line}
      BY <2>7, <2>8, <2>9
    <3> HIDE DEF A, B
    <3>2. A = B \cup {line}
      BY <3>1
    <3> QED BY <3>2 DEF A, B
  <2> QED BY <1>2, <2>10
<1> QED BY <1>1, <1>2

LEMMA ReadQueues ==
  ASSUME ListInv, QueueInv, HeapInv, NEW line, Follows(lines_read, line),
         Utility!ReadLine(line)
  PROVE  QueueInv' /\ HeapInv'
<1> DEFINE tid == line.tid
           q == Utility!QueueOf(line.tid)
           q2 == Utility!Enqueue(q, line, line.what = "tf")
           entry == <<line.time, line.tid>>
<1>1. /\ lines_read \in Seq(Lines) /\ line \in Lines /\ lines_read' = Append(lines_read, line)
      /\ time_threadid_min = Utility!SetToBag(HeadsOf(queues))
  BY DEF ListInv, Follows, Utility!ReadLine, HeapInv
<1>2. \A t \in DOMAIN queues : QueueOK(lines_read, t, queues[t])
  BY DEF QueueInv
<1>3. \A t \in DOMAIN queues : QueueOK(lines_read', t, queues[t])
  BY <1>1, <1>2, KeepOK
<1>4. CASE line.what = "thread_sync"
  <2>1. queues' = queues /\ time_threadid_min' = time_threadid_min
    BY <1>4 DEF Utility!ReadLine
  <2>2. \A t \in DOMAIN queues' : QueueOK(lines_read', t, queues'[t])
    BY <1>3, <2>1
  <2>3. QueueInv'
    BY <2>2 DEF QueueInv, QueueOK, Shows, HasLine
  <2> QED BY <1>1, <2>1, <2>3 DEF HeapInv
<1>5. CASE line.what # "thread_sync"
  <2>1. /\ queues' = Utility!Put(queues, tid, q2) /\ Utility!MayEnqueue(q, line.time)
        /\ time_threadid_min' =
             IF q.entries = <<>>
             THEN Utility!(+)(time_threadid_min, Utility!SetToBag({entry}))
             ELSE time_threadid_min
    <3>1. Utility!Accepts(line)
      BY AcceptsNext
    <3> QED BY <1>5, <3>1 DEF Utility!ReadLine, Utility!Accepts, Utility!PushHead
  <2>2. /\ DOMAIN queues' = DOMAIN queues \cup {tid}
        /\ queues'[tid] = q2
        /\ \A t \in DOMAIN queues : t # tid => queues'[t] = queues[t]
    BY <2>1 DEF Utility!Put
  <2>3. QueueOK(lines_read, tid, q)
    BY <1>2, EmptyQueueOK DEF Utility!QueueOf
  <2>4. QueueOK(lines_read', tid, q2)
    BY <1>1, <2>1, <2>3, EnqueueOK
  <2>5. \A t \in DOMAIN queues' : QueueOK(lines_read', t, queues'[t])
    BY <1>3, <2>2, <2>4
  <2>6. QueueInv'
    BY <2>5 DEF QueueInv, QueueOK, Shows, HasLine
  <2>7. /\ q.entries \in Seq(Lines) /\ q2.entries = Append(q.entries, line)
        /\ tid \in DOMAIN queues => q = queues[tid]
        /\ tid \notin DOMAIN queues => q.entries = <<>>
    BY <2>3 DEF QueueOK, Utility!QueueOf, Utility!NewQueue, Utility!Enqueue
  <2>8. /\ q2.entries # <<>>
        /\ q.entries = <<>> => Head(q2.entries) = line
        /\ q.entries # <<>> => Head(q2.entries) = Head(q.entries)
    <3> HIDE DEF q, q2
    <3>1. /\ Len(q.entries) + 1 \in DOMAIN q2.entries
          /\ \A i \in DOMAIN q.entries : q2.entries[i] = q.entries[i]
          /\ q2.entries[Len(q.entries) + 1] = line
          /\ q2.entries \in Seq(Lines)
      BY <1>1, <2>7, AppendLines
    <3>2. q2.entries # <<>>
      BY <3>1
    <3>3. Head(q2.entries) = q2.entries[1]
      BY <3>1, <3>2, TailLines
    <3>4. CASE q.entries = <<>>
      <4>1. Len(q.entries) + 1 = 1
        BY <3>4
      <4> QED BY <3>1, <3>2, <3>3, <3>4, <4>1
    <3>5. CASE q.entries # <<>>
      BY <2>7, <3>1, <3>2, <3>3, <3>5, TailLines
    <3> QED BY <3>4, <3>5
  <2> HIDE DEF q, q2
  <2>9. \A d : d \in HeadsOf(queues') <=> d \in HeadsOf(queues) \/ (q.entries = <<>> /\ d = entry)
    <3>1. ASSUME NEW d \in HeadsOf(queues')
          PROVE  d \in HeadsOf(queues) \/ (q.entries = <<>> /\ d = entry)
      <4>1. PICK t \in DOMAIN queues' :
              queues'[t].entries # <<>> /\ d = <<Head(queues'[t].entries).time, t>>
        BY <3>1, HeadsMean
      <4>2. CASE t = tid
        <5>1. d = <<Head(q2.entries).time, tid>>
          BY <2>2, <4>1, <4>2
        <5>2. CASE q.entries = <<>>
          BY <2>8, <5>1, <5>2
        <5>3. CASE q.entries # <<>>
          <6>1. tid \in DOMAIN queues /\ queues[tid] = q /\ d = <<Head(q.entries).time, tid>>
            BY <2>7, <2>8, <5>1, <5>3
          <6> QED BY <5>3, <6>1, HeadsMean
        <5> QED BY <5>2, <5>3
      <4>3. CASE t # tid
        <5>1. t \in DOMAIN queues /\ queues'[t] = queues[t]
          BY <2>2, <4>3
        <5> QED BY <4>1, <5>1, HeadsMean
      <4> QED BY <4>2, <4>3
    <3>2. ASSUME NEW d \in HeadsOf(queues) PROVE d \in HeadsOf(queues')
      <4>1. PICK t \in DOMAIN queues :
              queues[t].entries # <<>> /\ d = <<Head(queues[t].entries).time, t>>
        BY <3>2, HeadsMean
      <4>2. CASE t = tid
        <5>1. q = queues[tid] /\ q.entries # <<>> /\ d = <<Head(q.entries).time, tid>>
          BY <2>7, <4>1, <4>2
        <5>2. d = <<Head(queues'[tid].entries).time, tid>> /\ queues'[tid].entries # <<>>
          BY <2>2, <2>8, <5>1
        <5> QED BY <2>2, <5>2, HeadsMean
      <4>3. CASE t # tid
        <5>1. t \in DOMAIN queues' /\ queues'[t] = queues[t]
          BY <2>2, <4>3
        <5> QED BY <4>1, <5>1, HeadsMean
      <4> QED BY <4>2, <4>3
    <3>3. ASSUME q.entries = <<>> PROVE entry \in HeadsOf(queues')
      <4>1. /\ tid \in DOMAIN queues' /\ queues'[tid].entries # <<>>
            /\ Head(queues'[tid].entries) = line
        BY <2>2, <2>8, <3>3
      <4> QED BY <4>1, HeadsMean
    <3> QED BY <3>1, <3>2, <3>3
  <2>10. q.entries = <<>> => entry \notin HeadsOf(queues)
    <3> SUFFICES ASSUME q.entries = <<>>, entry \in HeadsOf(queues) PROVE FALSE
      OBVIOUS
    <3>1. PICK t \in DOMAIN queues :
            queues[t].entries # <<>> /\ entry = <<Head(queues[t].entries).time, t>>
      BY HeadsMean
    <3>2. t = tid
      BY <3>1
    <3> QED BY <2>7, <3>1, <3>2
  <2>11. time_threadid_min' = Utility!SetToBag(HeadsOf(queues'))
    <3> DEFINE S == HeadsOf(queues)  S2 == HeadsOf(queues')
    <3>1. /\ \A d : d \in S2 <=> d \in S \/ (q.entries = <<>> /\ d = entry)
          /\ q.entries = <<>> => entry \notin S
      BY <2>9, <2>10, Zenon
    <3> HIDE DEF S, S2, entry
    <3>2. CASE q.entries # <<>>
      <4>1. \A d : d \in S2 <=> d \in S
        BY <3>1, <3>2, Zenon
      <4>2. S2 = S
        BY <4>1
      <4> QED BY <1>1, <2>1, <3>2, <4>2 DEF S, S2
    <3>3. CASE q.entries = <<>>
      <4>1. \A d : d \in S2 <=> d \in S \cup {entry}
        <5>1. \A d : d \in S2 <=> d \in S \/ d = entry
          BY <3>1, <3>3, Zenon
        <5> QED BY <5>1
      <4>2. S2 = S \cup {entry}
        BY <4>1
      <4>3. Utility!(+)(Utility!SetToBag(S), Utility!SetToBag({entry})) = Utility!SetToBag(S2)
        BY <3>1, <3>3, <4>2, BagAdd
      <4> QED BY <1>1, <2>1, <3>3, <4>3 DEF S, S2
    <3> QED BY <3>2, <3>3
  <2> QED BY <2>6, <2>11 DEF HeapInv
<1> QED BY <1>4, <1>5

LEMMA ReadContents ==
  ASSUME ListInv, QueueInv, ContentsInv, NEW line, Follows(lines_read, line),
         Utility!ReadLine(line)
  PROVE  ContentsInv'
<1>1. /\ lines_read \in Seq(Lines) /\ line \in Lines /\ lines_read' = Append(lines_read, line)
      /\ out' = out
  BY DEF ListInv, Follows, Utility!ReadLine
<1>2. Queued' = IF line.what = "thread_sync" THEN Queued ELSE Queued \cup {line}
  BY <1>1, ReadQueued
<1>3. /\ out \in Seq(Lines) /\ \A i \in DOMAIN out : out[i] \notin Queued
      /\ \A x : x \in Queued \/ (\E i \in DOMAIN out : out[i] = x) <=>
           \E i \in DOMAIN lines_read : lines_read[i] = x /\ x.what # "thread_sync"
  BY DEF ContentsInv
<1>4. /\ DOMAIN lines_read' = DOMAIN lines_read \cup {Len(lines_read) + 1}
      /\ \A i \in DOMAIN lines_read : lines_read'[i] = lines_read[i]
      /\ lines_read'[Len(lines_read) + 1] = line
  BY <1>1, AppendLines
<1>5. \A x : (\E i \in DOMAIN lines_read' : lines_read'[i] = x /\ x.what # "thread_sync") <=>
               \/ \E i \in DOMAIN lines_read : lines_read[i] = x /\ x.what # "thread_sync"
               \/ x = line /\ x.what # "thread_sync"
  BY <1>4
<1>6. \A i \in DOMAIN out : out[i] # line
  <2> SUFFICES ASSUME NEW i \in DOMAIN out, out[i] = line PROVE FALSE
    OBVIOUS
  <2>1. PICK j \in DOMAIN lines_read : lines_read[j] = line
    BY <1>3
  <2>2. line.time < line.time /\ line.time \in Nat
    BY <1>1, <2>1, LineFields DEF Follows
  <2> QED BY <2>2
<1>7. \A i \in DOMAIN out : out[i] \notin Queued'
  BY <1>2, <1>3, <1>6
<1>8. \A x : x \in Queued' \/ (\E i \in DOMAIN out : out[i] = x) <=>
             \E i \in DOMAIN lines_read' : lines_read'[i] = x /\ x.what # "thread_sync"
  BY <1>2, <1>3, <1>5
<1> QED BY <1>1, <1>3, <1>7, <1>8 DEF ContentsInv

LEMMA ReadLineStep ==
  ASSUME UtilityInv, NEW line, Follows(lines_read, line), Utility!ReadLine(line)
  PROVE  UtilityInv'
<1>1. ListInv' /\ CacheInv' /\ QueueInv' /\ HeapInv' /\ ContentsInv'
  BY ReadList, ReadCache, ReadQueues, ReadContents DEF UtilityInv
<1>2. RestInv'
  <2>1. merge_pc = "read" /\ merge_pc' = IF line.what = "thread_sync" THEN "read" ELSE "merge"
    BY AcceptsNext DEF UtilityInv, Utility!ReadLine
  <2>2. CASE line.what = "thread_sync"
    <3>1. Queued' = Queued
      BY <2>2, ReadQueued DEF UtilityInv, Follows
    <3>2. CASE line.tid \in DOMAIN tt_list'
      BY <2>1, <2>2, <3>2 DEF RestInv
    <3>3. CASE line.tid \notin DOMAIN tt_list'
      <4>1. \A t \in Threads : t >= 0
        BY ThreadsAssumption
      <4>2. ~(line.tid >= 0)
        BY <2>2, <3>3 DEF Utility!ReadLine, Utility!SetTime, Utility!Put
      <4>3. tt_list' = tt_list
        BY <2>2, <4>2 DEF Utility!ReadLine
      <4> QED BY <2>1, <2>2, <3>1, <4>3 DEF UtilityInv, RestInv
    <3> QED BY <3>2, <3>3
  <2>3. CASE line.what # "thread_sync"
    BY <2>1, <2>3 DEF RestInv
  <2> QED BY <2>2, <2>3
<1> QED BY <1>1, <1>2 DEF UtilityInv

(***************************************************************************)
(* The other steps                                                         *)
(***************************************************************************)
LEMMA UtilityInvInit == Utility!Init => UtilityInv
<1> SUFFICES ASSUME Utility!Init PROVE UtilityInv
  OBVIOUS
<1>1. /\ lines_read = <<>> /\ out = <<>> /\ merge_pc = "read" /\ queues = <<>>
      /\ time_threadid_min = Utility!EmptyBag /\ tt_list = <<>> /\ safe_cache = 0
      /\ active_threads = 0
  BY DEF Utility!Init
<1>2. /\ DOMAIN lines_read = {} /\ DOMAIN out = {} /\ DOMAIN queues = {} /\ DOMAIN tt_list = {}
      /\ lines_read \in Seq(Lines) /\ out \in Seq(Lines)
  BY <1>1
<1>3. ListInv
  <2>1. active_threads = Cardinality({}) /\ IsFiniteSet({})
    BY <1>1, FS_EmptySet
  <2> QED BY <1>2, <2>1 DEF ListInv, IsOpen, HasLine
<1>4. Queued = {}
  BY <1>2 DEF Queued, Utility!Queued
<1>5. HeapInv
  <2>1. HeadsOf(queues) = {}
    BY <1>2 DEF HeadsOf
  <2> QED BY <1>1, <2>1, BagEmpty DEF HeapInv
<1>6. ContentsInv
  BY <1>2, <1>4 DEF ContentsInv
<1> QED BY <1>1, <1>2, <1>3, <1>4, <1>5, <1>6
        DEF UtilityInv, CacheInv, QueueInv, RestInv

\* A step that leaves what the utility holds as it is.
LEMMA UtilitySame ==
  ASSUME UtilityInv, RestInv',
         UNCHANGED <<lines_read, out, queues, time_threadid_min, tt_list, safe_cache,
                     active_threads>>
  PROVE  UtilityInv'
<1>1. Queued' = Queued
  BY DEF Queued, Utility!Queued, Utility!Entries
<1>2. ListInv' /\ CacheInv' /\ HeapInv'
  BY DEF UtilityInv, ListInv, CacheInv, HeapInv
<1>3. QueueInv'
  BY DEF UtilityInv, QueueInv
<1>4. ContentsInv'
  BY <1>1 DEF UtilityInv, ContentsInv
<1> QED BY <1>2, <1>3, <1>4 DEF UtilityInv

LEMMA EmitStep ==
  ASSUME UtilityInv, Utility!MergeTop
  PROVE  UtilityInv' /\ \E line \in Lines : Emits(line)
<1>1. PICK line \in Lines : Emits(line)
  BY MergeTopStep DEF UtilityInv
<1>2. QueueInv' /\ HeapInv' /\ ContentsInv'
  BY <1>1, MergeTopStep, EmitContents DEF UtilityInv
<1>3. ListInv' /\ CacheInv'
  BY <1>1 DEF UtilityInv, Emits, ListInv, CacheInv
<1>4. RestInv'
  BY <1>1 DEF Emits, RestInv
<1> QED BY <1>1, <1>2, <1>3, <1>4 DEF UtilityInv

LEMMA MergeStopsStep ==
  ASSUME UtilityInv, Utility!MergeStops
  PROVE  UtilityInv'
<1>1. /\ UNCHANGED <<lines_read, out, queues, time_threadid_min, tt_list, safe_cache,
                     active_threads>>
      /\ merge_pc' = "read"
  BY DEF Utility!MergeStops
<1>2. DOMAIN tt_list # {}
  <2>1. active_threads # 0
    BY DEF Utility!MergeStops, Utility!MayGo
  <2>2. DOMAIN tt_list # {}
    <3> SUFFICES ASSUME DOMAIN tt_list = {} PROVE FALSE
      OBVIOUS
    <3>1. active_threads = Cardinality({})
      BY DEF UtilityInv, ListInv
    <3> QED BY <2>1, <3>1, FS_EmptySet
  <2> QED BY <2>2
<1>3. RestInv'
  BY <1>1, <1>2 DEF RestInv
<1> QED BY <1>1, <1>3, UtilitySame

\* At the end of a file whose threads have all finished, nothing is left.
LEMMA EndOfFileStep ==
  ASSUME UtilityInv, Utility!EndOfFile, DOMAIN tt_list = {}
  PROVE  UtilityInv' /\ merge_pc' = "done"
<1>1. /\ UNCHANGED <<lines_read, out, queues, time_threadid_min, tt_list, safe_cache,
                     active_threads>>
      /\ merge_pc = "read"
      /\ merge_pc' = IF time_threadid_min = Utility!EmptyBag THEN "done" ELSE "left"
  BY DEF Utility!EndOfFile
<1>2. Queued = {} /\ Queued' = Queued
  <2>1. Queued = {}
    BY <1>1 DEF UtilityInv, RestInv
  <2>2. Queued' = Queued
    BY <1>1 DEF Queued, Utility!Queued, Utility!Entries
  <2> QED BY <2>1, <2>2
<1>3. merge_pc' = "done"
  BY <1>1, <1>2, HeapMeans DEF UtilityInv
<1>4. RestInv'
  BY <1>2, <1>3 DEF RestInv
<1> QED BY <1>1, <1>3, <1>4, UtilitySame

(***************************************************************************)
(* The utility behind the pintool                                          *)
(***************************************************************************)
\* What the utility has read is the beginning of the file.
ReadInv ==
  /\ Len(lines_read) <= Len(trace_file)
  /\ \A i \in DOMAIN lines_read : i \in DOMAIN trace_file /\ lines_read[i] = trace_file[i]

\* Only a thread registers or finishes.
UnregisteredLines ==
  \A i \in DOMAIN trace_file :
    trace_file[i].tid = Unregistered => trace_file[i].what \notin {"tr", "tf"}

\* The utility ends with the file.
DoneInv == merge_pc = "done" => FileClosed

ChainInv == PintoolInv /\ UnregisteredLines /\ ReadInv /\ UtilityInv /\ DoneInv

\* The file grows at its end.
LEMMA FileGrows ==
  ASSUME TypeInv, TypeInv', Registration, FileInv, FileStep
  PROVE  /\ Len(trace_file) <= Len(trace_file')
         /\ \A i \in DOMAIN trace_file : i \in DOMAIN trace_file' /\ trace_file'[i] = trace_file[i]
         /\ UnregisteredLines => UnregisteredLines'
<1>1. /\ trace_file \in Seq(Lines) /\ Len(trace_file) \in Nat /\ Len(trace_file') \in Nat
      /\ DOMAIN trace_file = 1 .. Len(trace_file) /\ DOMAIN trace_file' = 1 .. Len(trace_file')
      /\ Unregistered \notin Threads
  BY FileTypes, FileLines DEF TypeInv, TypeOK
<1>2. CASE UNCHANGED trace_file
  BY <1>1, <1>2 DEF UnregisteredLines
<1>3. ASSUME NEW t \in Threads, NEW line \in Lines, NewLine(t, line), Writes(t, line)
      PROVE  /\ Len(trace_file) <= Len(trace_file')
             /\ \A i \in DOMAIN trace_file :
                  i \in DOMAIN trace_file' /\ trace_file'[i] = trace_file[i]
             /\ UnregisteredLines => UnregisteredLines'
  <2>1. line.time > lamport_timestamp[t]
    BY <1>3 DEF NewLine
  <2>2. /\ \A i \in DOMAIN trace_file :
             i \in DOMAIN trace_file' /\ trace_file'[i] = trace_file[i] /\ i < Len(trace_file')
        /\ trace_file'[Len(trace_file')] = line
        /\ \A i \in DOMAIN trace_file' :
             \/ i \in DOMAIN trace_file
             \/ \E j \in DOMAIN trace_stream[t] :
                  /\ i = Len(trace_file) + j /\ i < Len(trace_file')
                  /\ trace_file'[i] = trace_stream[t][j]
             \/ i = Len(trace_file')
    BY <1>3, <2>1, WrittenLines
  <2>3. Len(trace_file) <= Len(trace_file')
    <3>1. CASE Len(trace_file) = 0
      BY <1>1, <3>1
    <3>2. CASE Len(trace_file) # 0
      <4>1. Len(trace_file) \in DOMAIN trace_file
        BY <1>1, <3>2
      <4> QED BY <1>1, <2>2, <4>1
    <3> QED BY <3>1, <3>2
  <2>4. line.tid = Unregistered => line.what \notin {"tr", "tf"}
    BY <1>1, <1>3, LineControl
  <2>5. \A j \in DOMAIN trace_stream[t] : trace_stream[t][j].what \in Buffered
    BY DEF FileInv, StreamInv
  <2>6. ASSUME UnregisteredLines, NEW i \in DOMAIN trace_file', trace_file'[i].tid = Unregistered
        PROVE  trace_file'[i].what \notin {"tr", "tf"}
    <3>1. CASE i \in DOMAIN trace_file
      BY <2>2, <2>6, <3>1 DEF UnregisteredLines
    <3>2. CASE i = Len(trace_file')
      BY <2>2, <2>4, <2>6, <3>2
    <3>3. CASE \E j \in DOMAIN trace_stream[t] : trace_file'[i] = trace_stream[t][j]
      BY <2>5, <3>3 DEF Buffered
    <3> QED BY <2>2, <3>1, <3>2, <3>3
  <2> QED BY <2>2, <2>3, <2>6 DEF UnregisteredLines
<1> QED BY <1>2, <1>3 DEF FileStep, Adds

\* A part of the file from its beginning, not all of it.
IsBeginning(content) ==
  /\ Len(content) < Len(trace_file)
  /\ \A i \in DOMAIN content : i \in DOMAIN trace_file /\ content[i] = trace_file[i]

\* A line of the file is one that may follow those before it.
LEMMA LineFollows ==
  ASSUME PintoolInv, UnregisteredLines, NEW content \in Seq(Lines), IsBeginning(content)
  PROVE  Follows(content, trace_file[Len(content) + 1])
<1> DEFINE n == Len(content) + 1
           line == trace_file[n]
           tid == line.tid
<1>1. /\ trace_file \in Seq(Lines) /\ Len(content) \in Nat /\ Len(trace_file) \in Nat
      /\ DOMAIN trace_file = 1 .. Len(trace_file) /\ DOMAIN content = 1 .. n - 1
      /\ n \in DOMAIN trace_file /\ line \in Lines /\ line.time \in Nat
  <2>1. trace_file \in Seq(Lines) /\ Len(trace_file) \in Nat /\ Len(content) \in Nat
        /\ DOMAIN trace_file = 1 .. Len(trace_file) /\ DOMAIN content = 1 .. Len(content)
    BY FileTypes, FileLines DEF PintoolInv, IsBeginning
  <2>2. n \in DOMAIN trace_file /\ n - 1 = Len(content)
    BY <2>1 DEF IsBeginning
  <2> QED BY <2>1, <2>2, FileLines
<1>2. \A i \in DOMAIN content : i \in DOMAIN trace_file /\ content[i] = trace_file[i]
  BY DEF IsBeginning
<1> HIDE DEF n
<1>3. \A k \in DOMAIN trace_file :
        /\ Contract!MayFollow(SubSeq(trace_file, 1, k - 1), trace_file[k])
        /\ SubSeq(trace_file, 1, k - 1) \in Seq(Lines)
        /\ DOMAIN SubSeq(trace_file, 1, k - 1) = 1 .. k - 1
        /\ \A i \in 1 .. k - 1 : i \in DOMAIN trace_file /\ SubSeq(trace_file, 1, k - 1)[i] = trace_file[i]
  <2>1. \A k \in DOMAIN trace_file :
          Contract!MayFollow(SubSeq(trace_file, 1, k - 1), trace_file[k])
    BY DEF PintoolInv, FileInv, MergeContract, Contract!WellFormed
  <2> QED BY <1>1, <2>1, Before
<1>4. Contract!MayFollow(content, line)
  <2> DEFINE before == SubSeq(trace_file, 1, n - 1)
  <2>1. /\ before \in Seq(Lines) /\ DOMAIN before = 1 .. n - 1
        /\ \A i \in 1 .. n - 1 : before[i] = trace_file[i]
        /\ Contract!MayFollow(before, line)
    BY <1>1, <1>3
  <2> HIDE DEF before
  <2>2. Len(before) = Len(content)
    <3>1. Len(before) \in Nat /\ 1 .. Len(before) = 1 .. n - 1
      BY <2>1, FileLines
    <3>2. n - 1 \in Nat /\ n - 1 = Len(content)
      BY <1>1 DEF n
    <3>3. \A a, b \in Nat : 1 .. a = 1 .. b => a = b
      OBVIOUS
    <3> QED BY <3>1, <3>2, <3>3
  <2>3. \A i \in 1 .. Len(before) : before[i] = content[i]
    <3>1. 1 .. Len(before) = 1 .. n - 1
      BY <2>1, FileLines
    <3> QED BY <1>1, <1>2, <2>1, <3>1
  <2>4. before = content
    BY <2>1, <2>2, <2>3, SeqEqual
  <2> QED BY <2>1, <2>4
<1>5. Contract!Unregistered = Unregistered
  BY DEF Contract!Unregistered, Unregistered
<1>6. tid = Unregistered => line.what \notin {"tr", "tf"}
  BY <1>1 DEF UnregisteredLines
<1>7. tid # Unregistered => tid \in Threads
  BY <1>1 DEF Lines
<1> HIDE DEF line
<1>8. /\ line.time > 0
      /\ \A i \in DOMAIN content : content[i].tid = tid => content[i].time < line.time
  <2>1. line.time > Contract!LastOf(content, tid)
    BY <1>4 DEF Contract!MayFollow
  <2>2. /\ Contract!LastOf(content, tid) \in Nat
        /\ \A i \in DOMAIN content :
             content[i].tid = tid => content[i].time <= Contract!LastOf(content, tid)
        /\ \A i \in DOMAIN content : content[i].time \in Nat
    BY LastOfIsLast, FileLines
  <2> QED BY <1>1, <2>1, <2>2
<1>9. ASSUME line.what = "tr", NEW i \in DOMAIN content, content[i].tid = tid PROVE FALSE
  <2>1. tid \in Threads /\ tid # Unregistered
    BY <1>6, <1>7, <1>9
  <2>2. i \in DOMAIN trace_file /\ trace_file[i].tid = tid /\ i < n /\ i \in Nat /\ n \in Nat
    BY <1>1, <1>2, <1>9
  <2>3. PICK r \in DOMAIN trace_file : OnlyLine(r, tid, "tr")
    BY <1>1, <2>1, <2>2 DEF PintoolInv, FileInv, OwnLines, RegisterLines
  <2>4. r = n
    BY <1>1, <1>9, <2>3 DEF OnlyLine, line
  <2> DEFINE before == SubSeq(trace_file, 1, i - 1)
  <2>5. /\ before \in Seq(Lines) /\ DOMAIN before = 1 .. i - 1
        /\ \A k \in 1 .. i - 1 : k \in DOMAIN trace_file /\ before[k] = trace_file[k]
        /\ Contract!MayFollow(before, trace_file[i])
    BY <1>3, <2>2
  <2> HIDE DEF before
  <2>6. trace_file[i].what # "tr"
    BY <2>2, <2>3, <2>4 DEF OnlyLine
  <2>7. tid \in Contract!ActiveIn(before)
    BY <1>5, <2>1, <2>2, <2>5, <2>6 DEF Contract!MayFollow
  <2>8. Contract!Count(before, tid, "tr") # 0
    <3>1. Contract!Count(before, tid, "tr") > Contract!Count(before, tid, "tf")
      BY <2>7 DEF Contract!ActiveIn
    <3>2. Contract!Count(before, tid, "tf") \in Nat
      BY <2>5, CountInNat
    <3> QED BY <3>1, <3>2
  <2>9. PICK k \in DOMAIN before : before[k].tid = tid /\ before[k].what = "tr"
    BY <2>5, <2>8, CountOfNone
  <2>10. k \in DOMAIN trace_file /\ trace_file[k].tid = tid /\ trace_file[k].what = "tr" /\ k < i
    BY <2>2, <2>5, <2>9
  <2>11. k = n
    BY <2>3, <2>4, <2>10 DEF OnlyLine
  <2> QED BY <2>2, <2>10, <2>11
<1>10. ASSUME tid # Unregistered, line.what # "tr" PROVE IsOpen(content, tid)
  <2>1. tid \in Contract!ActiveIn(content)
    BY <1>4, <1>5, <1>10 DEF Contract!MayFollow
  <2>2. /\ Contract!Count(content, tid, "tr") > Contract!Count(content, tid, "tf")
        /\ Contract!Count(content, tid, "tr") \in Nat
        /\ Contract!Count(content, tid, "tf") \in Nat
    BY <2>1, CountInNat DEF Contract!ActiveIn
  <2>3. PICK r \in DOMAIN content : content[r].tid = tid /\ content[r].what = "tr"
    <3>1. Contract!Count(content, tid, "tr") # 0
      BY <2>2
    <3> QED BY <3>1, CountOfNone
  <2>4. ASSUME NEW f \in DOMAIN content, content[f].tid = tid, content[f].what = "tf"
        PROVE  FALSE
    <3>1. /\ r \in DOMAIN trace_file /\ trace_file[r].tid = tid /\ trace_file[r].what = "tr"
          /\ f \in DOMAIN trace_file /\ trace_file[f].tid = tid /\ trace_file[f].what = "tf"
          /\ tid \in Threads
      BY <1>2, <1>7, <1>10, <2>3, <2>4
    <3>2. IsRegistered(tid)
      BY <3>1 DEF PintoolInv, FileInv, OwnLines
    <3>3. \A i \in DOMAIN trace_file :
            trace_file[i].tid = tid /\ trace_file[i].what = "tr" => i = r
      BY <3>1, <3>2 DEF PintoolInv, FileInv, RegisterLines, OnlyLine
    <3>4. \A i \in DOMAIN trace_file :
            trace_file[i].tid = tid /\ trace_file[i].what = "tf" => i = f
      BY <3>1, <3>2 DEF PintoolInv, FileInv, FinishLines, OnlyLine
    <3>5. Contract!Count(content, tid, "tr") = 1
      BY <1>2, <2>3, <3>3, CountOfOne
    <3>6. Contract!Count(content, tid, "tf") = 1
      BY <1>2, <2>4, <3>4, CountOfOne
    <3> QED BY <2>2, <3>5, <3>6
  <2> QED BY <2>3, <2>4 DEF IsOpen, HasLine
<1>11. line \in Lines
  BY <1>1 DEF line
<1>12. Follows(content, line)
  BY <1>6, <1>8, <1>9, <1>10, <1>11 DEF Follows
<1> QED BY <1>12 DEF line, n

LEMMA NextFollows ==
  ASSUME PintoolInv, UnregisteredLines, ReadInv, lines_read \in Seq(Lines), Unread
  PROVE  Follows(lines_read, trace_file[Len(lines_read) + 1])
<1>1. IsBeginning(lines_read)
  BY DEF IsBeginning, ReadInv, Unread
<1> QED BY <1>1, LineFollows

\* When the file is closed and read, every thread in it has finished.
LEMMA ClosedMeans ==
  ASSUME PintoolInv, UnregisteredLines, ReadInv, ListInv, FileClosed
  PROVE  DOMAIN tt_list = {}
<1> SUFFICES ASSUME NEW t \in DOMAIN tt_list PROVE FALSE
  OBVIOUS
<1>1. IsOpen(lines_read, t)
  BY DEF ListInv
<1>2. PICK r \in DOMAIN lines_read : lines_read[r].tid = t /\ lines_read[r].what = "tr"
  BY <1>1 DEF IsOpen, HasLine
<1>3. /\ trace_file \in Seq(Lines) /\ lines_read \in Seq(Lines)
      /\ DOMAIN trace_file = DOMAIN lines_read
  <2>1. trace_file \in Seq(Lines) /\ lines_read \in Seq(Lines)
    BY FileTypes DEF PintoolInv, ListInv
  <2>2. Len(trace_file) = Len(lines_read)
    <3>1. Len(trace_file) \in Nat /\ Len(lines_read) \in Nat
      BY <2>1, FileLines
    <3>2. ~(Len(lines_read) < Len(trace_file)) /\ Len(lines_read) <= Len(trace_file)
      BY DEF FileClosed, Unread, ReadInv
    <3> QED BY <3>1, <3>2
  <2> QED BY <2>1, <2>2, FileLines
<1>4. r \in DOMAIN trace_file /\ trace_file[r].tid = t /\ trace_file[r].what = "tr"
  BY <1>2 DEF ReadInv
<1>5. t \in Threads
  <2>1. t # Unregistered
    BY <1>4 DEF UnregisteredLines
  <2>2. trace_file[r] \in Lines
    BY <1>3, <1>4, FileLines
  <2> QED BY <1>4, <2>1, <2>2 DEF Lines
<1>6. IsRegistered(t)
  BY <1>4, <1>5 DEF PintoolInv, FileInv, OwnLines
<1>7. pc[t] = "finished"
  BY <1>5, <1>6 DEF FileClosed, PintoolInv, ControlInv, Registration
<1>8. PICK f \in DOMAIN trace_file : trace_file[f].tid = t /\ trace_file[f].what = "tf"
  BY <1>5, <1>6, <1>7 DEF Closed, PintoolInv, FileInv, FinishLines, OnlyLine
<1>9. f \in DOMAIN lines_read /\ lines_read[f].tid = t /\ lines_read[f].what = "tf"
  BY <1>3, <1>8 DEF ReadInv
<1> QED BY <1>1, <1>9 DEF IsOpen, HasLine

LEMMA ChainInvInit == PipelineInit => ChainInv
<1> SUFFICES ASSUME PipelineInit PROVE ChainInv
  OBVIOUS
<1>1. PintoolInv /\ UtilityInv
  BY PintoolInvInit, UtilityInvInit DEF PipelineInit
<1>2. trace_file = <<>> /\ lines_read = <<>> /\ merge_pc = "read"
  BY DEF PipelineInit, Init, Utility!Init
<1>3. DOMAIN trace_file = {} /\ DOMAIN lines_read = {} /\ Len(lines_read) <= Len(trace_file)
  BY <1>2
<1> QED BY <1>1, <1>2, <1>3 DEF ChainInv, UnregisteredLines, ReadInv, DoneInv

\* A step of the pintool, and one of the utility, in the chain.
LEMMA ChainTracer ==
  ASSUME Cooperative, ChainInv, NeverPaused', TracerStep
  PROVE  ChainInv'
<1>1. Next /\ UNCHANGED mergeVars /\ merge_pc = "read"
  BY DEF TracerStep
<1>2. PintoolInv'
  BY <1>1, PintoolInvStep DEF ChainInv
<1>3. FileStep
  <2>1. Advance
    BY <1>1, ClockStep DEF ChainInv, PintoolInv
  <2> QED BY <1>1, <1>2, <2>1, FileStepHolds DEF ChainInv, PintoolInv
<1>4. /\ Len(trace_file) <= Len(trace_file')
      /\ \A i \in DOMAIN trace_file : i \in DOMAIN trace_file' /\ trace_file'[i] = trace_file[i]
      /\ UnregisteredLines'
  BY <1>2, <1>3, FileGrows DEF ChainInv, PintoolInv, ControlInv
<1>5. UNCHANGED <<merge_pc, lines_read, out, queues, time_threadid_min, tt_list, safe_cache,
                  active_threads>>
  BY <1>1 DEF mergeVars
<1>6. ReadInv'
  <2>1. Len(lines_read) \in Nat /\ Len(trace_file) \in Nat /\ Len(trace_file') \in Nat
    <3>1. trace_file \in Seq(Lines) /\ trace_file' \in Seq(Lines) /\ lines_read \in Seq(Lines)
      BY <1>2 DEF ChainInv, PintoolInv, TypeInv, TypeOK, UtilityInv, ListInv
    <3> QED BY <3>1, FileLines
  <2>2. Len(lines_read') <= Len(trace_file')
    BY <1>4, <1>5, <2>1 DEF ChainInv, ReadInv
  <2> QED BY <1>4, <1>5, <2>2 DEF ChainInv, ReadInv
<1>7. UtilityInv'
  <2>1. Queued' = Queued
    BY <1>5 DEF Queued, Utility!Queued, Utility!Entries
  <2>2. RestInv'
    BY <1>5, <2>1 DEF ChainInv, UtilityInv, RestInv
  <2> QED BY <1>5, <2>2, UtilitySame DEF ChainInv
<1>8. DoneInv'
  BY <1>1, <1>5 DEF DoneInv
<1> QED BY <1>2, <1>4, <1>6, <1>7, <1>8 DEF ChainInv

\* What a step of the utility is.
LEMMA MergeSteps ==
  ASSUME ChainInv, MergeStep
  PROVE  /\ UNCHANGED <<vars, effects>>
         /\ UtilityInv'
         /\ \/ /\ Unread /\ Follows(lines_read, trace_file[Len(lines_read) + 1])
               /\ Utility!ReadLine(trace_file[Len(lines_read) + 1])
            \/ merge_pc' # "done" /\ lines_read' = lines_read /\ \E line \in Lines : Emits(line)
            \/ merge_pc' # "done" /\ lines_read' = lines_read /\ out' = out /\ queues' = queues
            \/ /\ merge_pc' = "done" /\ lines_read' = lines_read /\ out' = out /\ queues' = queues
               /\ FileClosed
<1>1. UNCHANGED <<vars, effects>>
  BY DEF MergeStep
<1>2. CASE Unread /\ Utility!ReadLine(trace_file[Len(lines_read) + 1])
  <2>1. Follows(lines_read, trace_file[Len(lines_read) + 1])
    BY <1>2, NextFollows DEF ChainInv, UtilityInv, ListInv
  <2>2. UtilityInv'
    BY <1>2, <2>1, ReadLineStep DEF ChainInv
  <2> QED BY <1>1, <1>2, <2>1, <2>2
<1>3. CASE Utility!MergeTop
  <2>1. UtilityInv' /\ \E line \in Lines : Emits(line)
    BY <1>3, EmitStep DEF ChainInv
  <2>2. merge_pc' # "done" /\ lines_read' = lines_read
    BY <2>1 DEF Emits
  <2> QED BY <1>1, <2>1, <2>2
<1>4. CASE Utility!MergeStops
  <2>1. UtilityInv'
    BY <1>4, MergeStopsStep DEF ChainInv
  <2>2. merge_pc' # "done" /\ lines_read' = lines_read /\ out' = out /\ queues' = queues
    BY <1>4 DEF Utility!MergeStops
  <2> QED BY <1>1, <2>1, <2>2
<1>5. CASE FileClosed /\ Utility!EndOfFile
  <2>1. UtilityInv' /\ merge_pc' = "done"
    BY <1>5, ClosedMeans, EndOfFileStep DEF ChainInv, UtilityInv
  <2>2. lines_read' = lines_read /\ out' = out /\ queues' = queues
    BY <1>5 DEF Utility!EndOfFile
  <2> QED BY <1>1, <1>5, <2>1, <2>2
<1> QED BY <1>2, <1>3, <1>4, <1>5 DEF MergeStep

LEMMA ChainMerge ==
  ASSUME Cooperative, ChainInv, NeverPaused', MergeStep
  PROVE  ChainInv'
<1>1. UNCHANGED vars /\ UtilityInv'
  BY MergeSteps
<1>2. PintoolInv'
  BY <1>1, PintoolInvStep DEF ChainInv
<1>3. trace_file' = trace_file /\ pc' = pc
  BY <1>1 DEF vars, file, control
<1>4. UnregisteredLines'
  BY <1>3 DEF ChainInv, UnregisteredLines
<1>5. /\ trace_file \in Seq(Lines) /\ lines_read \in Seq(Lines)
      /\ Len(lines_read) \in Nat /\ Len(trace_file) \in Nat
      /\ DOMAIN trace_file = 1 .. Len(trace_file)
  <2>1. trace_file \in Seq(Lines) /\ lines_read \in Seq(Lines)
    BY DEF ChainInv, PintoolInv, TypeInv, TypeOK, UtilityInv, ListInv
  <2> QED BY <2>1, FileLines
<1>6. ReadInv' /\ DoneInv'
  <2>1. CASE Unread /\ Follows(lines_read, trace_file[Len(lines_read) + 1])
             /\ Utility!ReadLine(trace_file[Len(lines_read) + 1])
    <3> DEFINE n == Len(lines_read) + 1
    <3>1. /\ lines_read' = Append(lines_read, trace_file[n]) /\ merge_pc' # "done"
          /\ trace_file[n] \in Lines
      <4>1. lines_read' = Append(lines_read, trace_file[n]) /\ trace_file[n] \in Lines
        BY <2>1 DEF Utility!ReadLine, Follows
      <4>2. merge_pc' \in {"failed", "read", "merge"}
        BY <2>1 DEF Utility!ReadLine
      <4> QED BY <4>1, <4>2
    <3>2. n <= Len(trace_file) /\ n \in DOMAIN trace_file
      BY <1>5, <2>1 DEF Unread
    <3>3. /\ Len(lines_read') = n /\ DOMAIN lines_read' = DOMAIN lines_read \cup {n}
          /\ \A i \in DOMAIN lines_read : lines_read'[i] = lines_read[i]
          /\ lines_read'[n] = trace_file[n]
      BY <1>5, <3>1, AppendLines
    <3> HIDE DEF n
    <3> QED BY <1>3, <3>1, <3>2, <3>3 DEF ChainInv, ReadInv, DoneInv
  <2>2. CASE merge_pc' # "done" /\ lines_read' = lines_read
    BY <1>3, <2>2 DEF ChainInv, ReadInv, DoneInv
  <2>3. CASE merge_pc' = "done" /\ lines_read' = lines_read /\ FileClosed
    BY <1>3, <2>3 DEF ChainInv, ReadInv, DoneInv, FileClosed, Unread
  <2> QED BY <2>1, <2>2, <2>3, MergeSteps
<1> QED BY <1>1, <1>2, <1>4, <1>6 DEF ChainInv

LEMMA ChainSame ==
  ASSUME Cooperative, ChainInv, NeverPaused', UNCHANGED pipelineVars
  PROVE  ChainInv'
<1>1. /\ UNCHANGED vars
      /\ UNCHANGED <<merge_pc, lines_read, out, queues, time_threadid_min, tt_list, safe_cache,
                     active_threads>>
  BY DEF pipelineVars, mergeVars
<1>2. PintoolInv'
  BY <1>1, PintoolInvStep DEF ChainInv
<1>3. trace_file' = trace_file /\ pc' = pc
  BY <1>1 DEF vars, file, control
<1>4. UtilityInv'
  <2>1. Queued' = Queued
    BY <1>1 DEF Queued, Utility!Queued, Utility!Entries
  <2>2. RestInv'
    BY <1>1, <2>1 DEF ChainInv, UtilityInv, RestInv
  <2> QED BY <1>1, <2>2, UtilitySame DEF ChainInv
<1>5. UnregisteredLines' /\ ReadInv' /\ DoneInv'
  BY <1>1, <1>3 DEF ChainInv, UnregisteredLines, ReadInv, DoneInv, FileClosed, Unread
<1> QED BY <1>2, <1>4, <1>5 DEF ChainInv

LEMMA ChainInvStep ==
  ASSUME Cooperative, ChainInv, NeverPaused', [PipelineNext]_pipelineVars
  PROVE  ChainInv'
  BY ChainTracer, ChainMerge, ChainSame DEF PipelineNext, Over

\* The utility never fails on a file of the pintool's: what its asserts test
\* is true of every line it takes, and when the pintool has closed the file
\* nothing is left in its queues.
THEOREM UtilityNeverFails ==
  Cooperative => (PipelineSpec /\ []NeverPaused => []UtilitySucceeds)
<1> SUFFICES ASSUME Cooperative PROVE PipelineSpec /\ []NeverPaused => []UtilitySucceeds
  OBVIOUS
<1>1. ChainInv /\ NeverPaused' /\ [PipelineNext]_pipelineVars => ChainInv'
  BY ChainInvStep
<1>2. ChainInv => UtilitySucceeds
  BY DEF ChainInv, UtilityInv, RestInv, UtilitySucceeds
<1> QED BY <1>1, <1>2, ChainInvInit, PTL DEF PipelineSpec

(***************************************************************************)
(* The accesses in the trace                                               *)
(***************************************************************************)
Has(content, line) == \E i \in DOMAIN content : content[i] = line

InFile(line) == Has(trace_file, line)

InBuffer(t, line) == Has(trace_stream[t], line)

\* The accesses that have their entry, in the file or in a buffer.
Traced ==
  {line \in Lines : /\ line.what = "m"
                    /\ InFile(line) \/ \E t \in Threads : InBuffer(t, line)}

LEMMA ConcatShows ==
  ASSUME NEW a \in Seq(Lines), NEW b \in Seq(Lines), NEW x
  PROVE  Has(a \o b, x) <=> Has(a, x) \/ Has(b, x)
<1> DEFINE both == a \o b
<1>1. /\ both \in Seq(Lines) /\ Len(both) = Len(a) + Len(b)
      /\ \A i \in 1 .. Len(a) + Len(b) : both[i] = IF i <= Len(a) THEN a[i] ELSE b[i - Len(a)]
  BY ConcatProperties
<1>2. /\ Len(a) \in Nat /\ Len(b) \in Nat /\ DOMAIN a = 1 .. Len(a) /\ DOMAIN b = 1 .. Len(b)
      /\ DOMAIN both = 1 .. Len(a) + Len(b)
  BY <1>1, FileLines
<1> HIDE DEF both
<1>3. ASSUME NEW i \in DOMAIN a PROVE i \in DOMAIN both /\ both[i] = a[i]
  BY <1>1, <1>2
<1>4. ASSUME NEW j \in DOMAIN b
      PROVE  j + Len(a) \in DOMAIN both /\ both[j + Len(a)] = b[j]
  <2>1. j + Len(a) \in 1 .. Len(a) + Len(b) /\ ~(j + Len(a) <= Len(a)) /\ j + Len(a) - Len(a) = j
    BY <1>2
  <2> QED BY <1>1, <1>2, <2>1
<1>5. ASSUME NEW i \in DOMAIN both, i \notin DOMAIN a
      PROVE  i - Len(a) \in DOMAIN b /\ both[i] = b[i - Len(a)]
  BY <1>1, <1>2, <1>5
<1>6. (\E i \in DOMAIN both : both[i] = x)
        <=> (\E i \in DOMAIN a : a[i] = x) \/ (\E j \in DOMAIN b : b[j] = x)
  BY <1>3, <1>4, <1>5
<1> QED BY <1>6 DEF both, Has

\* A line is buffered; a buffer is written, with a line behind it or without.
LEMMA BufferedLine ==
  ASSUME TypeInv, NEW t \in Threads, NEW line \in Lines, UNCHANGED trace_file,
         trace_stream' = [trace_stream EXCEPT ![t] = Append(trace_stream[t], line)]
  PROVE  /\ line.what = "m" => Traced' = Traced \cup {line}
         /\ line.what # "m" => Traced' = Traced
<1>1. trace_stream \in [Threads -> Seq(Lines)] /\ trace_stream[t] \in Seq(Lines)
  BY DEF TypeInv, TypeOK
<1>2. ASSUME NEW x PROVE InBuffer(t, x)' <=> InBuffer(t, x) \/ x = line
  <2> DEFINE s == trace_stream[t]
  <2>1. trace_stream'[t] = Append(s, line)
    BY <1>1
  <2>2. /\ DOMAIN Append(s, line) = DOMAIN s \cup {Len(s) + 1}
        /\ \A i \in DOMAIN s : Append(s, line)[i] = s[i]
        /\ Append(s, line)[Len(s) + 1] = line
    BY <1>1, AppendLines
  <2> HIDE DEF s
  <2>3. Has(Append(s, line), x) <=> Has(s, x) \/ x = line
    BY <2>2 DEF Has
  <2> QED BY <2>1, <2>3 DEF InBuffer, s
<1>3. ASSUME NEW u \in Threads \ {t}, NEW x PROVE InBuffer(u, x)' <=> InBuffer(u, x)
  <2>1. trace_stream'[u] = trace_stream[u]
    BY <1>1
  <2> QED BY <2>1 DEF InBuffer, Has
<1>4. ASSUME NEW x
      PROVE (InFile(x) \/ \E u \in Threads : InBuffer(u, x))'
              <=> InFile(x) \/ (\E u \in Threads : InBuffer(u, x)) \/ x = line
  BY <1>2, <1>3 DEF InFile
<1>5. ASSUME NEW x \in Lines PROVE x \in Traced' <=> x \in Traced \/ (x = line /\ line.what = "m")
  BY <1>4 DEF Traced
<1>6. Traced \subseteq Lines /\ Traced' \subseteq Lines
  BY DEF Traced
<1> QED BY <1>5, <1>6

LEMMA WrittenBuffer ==
  ASSUME TypeInv, NEW t \in Threads, NEW content \in Seq(Lines), NEW more \in SUBSET Lines,
         \A x : Has(content, x) <=> InBuffer(t, x) \/ x \in more,
         trace_file' = trace_file \o content,
         trace_stream' = [trace_stream EXCEPT ![t] = <<>>]
  PROVE  \A x : x \in Traced' <=> x \in Traced \/ (x \in more /\ x.what = "m")
<1>1. trace_stream \in [Threads -> Seq(Lines)] /\ trace_file \in Seq(Lines)
  BY DEF TypeInv, TypeOK
<1>2. ASSUME NEW x PROVE InFile(x)' <=> InFile(x) \/ InBuffer(t, x) \/ x \in more
  <2>1. Has(trace_file \o content, x) <=> Has(trace_file, x) \/ Has(content, x)
    BY <1>1, ConcatShows
  <2> QED BY <2>1 DEF InFile
<1>3. ASSUME NEW u \in Threads, NEW x PROVE InBuffer(u, x)' <=> u # t /\ InBuffer(u, x)
  <2>1. CASE u = t
    <3>1. trace_stream'[t] = <<>> /\ DOMAIN trace_stream'[t] = {}
      BY <1>1
    <3> QED BY <2>1, <3>1 DEF InBuffer, Has
  <2>2. CASE u # t
    <3>1. trace_stream'[u] = trace_stream[u]
      BY <1>1, <2>2
    <3> QED BY <2>2, <3>1 DEF InBuffer, Has
  <2> QED BY <2>1, <2>2
<1>4. ASSUME NEW x
      PROVE  (InFile(x) \/ \E u \in Threads : InBuffer(u, x))'
               <=> InFile(x) \/ (\E u \in Threads : InBuffer(u, x)) \/ x \in more
  BY <1>2, <1>3
<1>5. ASSUME NEW x \in Lines
      PROVE  x \in Traced' <=> x \in Traced \/ (x \in more /\ x.what = "m")
  BY <1>4 DEF Traced
<1>6. Traced \subseteq Lines /\ Traced' \subseteq Lines
  BY DEF Traced
<1> QED BY <1>5, <1>6

LEMMA WrittenLine ==
  ASSUME TypeInv, NEW t \in Threads, NEW line \in Lines,
         trace_file' = trace_file \o Append(trace_stream[t], line),
         trace_stream' = [trace_stream EXCEPT ![t] = <<>>]
  PROVE  /\ line.what = "m" => Traced' = Traced \cup {line}
         /\ line.what # "m" => Traced' = Traced
<1> DEFINE s == trace_stream[t]
           content == Append(s, line)
<1>1. s \in Seq(Lines)
  BY DEF TypeInv, TypeOK
<1>2. /\ content \in Seq(Lines) /\ DOMAIN content = DOMAIN s \cup {Len(s) + 1}
      /\ \A i \in DOMAIN s : content[i] = s[i]
      /\ content[Len(s) + 1] = line
  BY <1>1, AppendLines
<1>3. trace_file' = trace_file \o content
  OBVIOUS
<1> HIDE DEF content
<1>4. \A x : Has(content, x) <=> InBuffer(t, x) \/ x \in {line}
  BY <1>2 DEF InBuffer, Has
<1>5. \A x : x \in Traced' <=> x \in Traced \/ (x \in {line} /\ x.what = "m")
  <2>1. {line} \in SUBSET Lines
    OBVIOUS
  <2> QED BY <1>2, <1>3, <1>4, <2>1, WrittenBuffer
<1> QED BY <1>5

LEMMA WrittenAlone ==
  ASSUME TypeInv, NEW t \in Threads, trace_file' = trace_file \o trace_stream[t],
         trace_stream' = [trace_stream EXCEPT ![t] = <<>>]
  PROVE  Traced' = Traced
<1> DEFINE none == {}
<1>1. trace_stream[t] \in Seq(Lines) /\ none \in SUBSET Lines /\ \A x : x \notin none
  BY DEF TypeInv, TypeOK
<1> HIDE DEF none
<1>2. \A x : Has(trace_stream[t], x) <=> InBuffer(t, x) \/ x \in none
  BY <1>1 DEF InBuffer
<1>3. \A x : x \in Traced' <=> x \in Traced \/ (x \in none /\ x.what = "m")
  BY <1>1, <1>2, WrittenBuffer
<1> QED BY <1>1, <1>3

LEMMA TouchTraced ==
  ASSUME TypeInv, NEW t \in Threads, NEW line \in Lines, NEW force \in BOOLEAN,
         TouchBuffer(t, line, force)
  PROVE  /\ line.what = "m" => Traced' = Traced \cup {line}
         /\ line.what # "m" => Traced' = Traced
<1>1. CASE /\ trace_stream' = [trace_stream EXCEPT ![t] = Append(trace_stream[t], line)]
           /\ UNCHANGED trace_file
  BY <1>1, BufferedLine
<1>2. CASE /\ trace_file' = trace_file \o Append(trace_stream[t], line)
           /\ trace_stream' = [trace_stream EXCEPT ![t] = <<>>]
  BY <1>2, WrittenLine
<1> QED BY <1>1, <1>2, TouchWrites

\* Only the two routines behind the operands of an access make such entries.
LEMMA TracedSteps ==
  ASSUME TypeInv, TypeInv', [Next]_vars
  PROVE  Traced' = Traced \/ \E t \in Threads : Footer(t) \/ CASFooter(t)
<1> SUFFICES ASSUME ~ \E t \in Threads : Footer(t) \/ CASFooter(t)
             PROVE  Traced' = Traced
  OBVIOUS
<1>1. ASSUME UNCHANGED <<trace_file, trace_stream>> PROVE Traced' = Traced
  BY <1>1 DEF Traced, InFile, InBuffer
<1>2. CASE UNCHANGED vars
  BY <1>1, <1>2 DEF vars, buffers, file
<1>3. ASSUME NEW t \in Threads, FunctionRegistered(t) PROVE Traced' = Traced
  <2> DEFINE line == Line(lamport_timestamp[t] + 1, user_threadid[t], "f")
  <2>1. TouchBuffer(t, line, FALSE)
    BY <1>3 DEF FunctionRegistered, TraceLocally
  <2>2. line \in Lines /\ line.what # "m"
    BY LineTypes DEF TypeInv, Line
  <2> HIDE DEF line
  <2> QED BY <2>1, <2>2, TouchTraced
<1>4. ASSUME NEW t \in Threads, ContextChange(t) PROVE Traced' = Traced
  <2> DEFINE line == Line(lamport_timestamp[t] + 1, user_threadid[t], "ctxt_change")
  <2>1. TouchBuffer(t, line, FALSE)
    BY <1>4 DEF ContextChange, TraceLocally
  <2>2. line \in Lines /\ line.what # "m"
    BY LineTypes DEF TypeInv, Line
  <2> HIDE DEF line
  <2> QED BY <2>1, <2>2, TouchTraced
<1>5. ASSUME NEW t \in Threads, SyncBody(t) PROVE Traced' = Traced
  <2> DEFINE line == SyncLine(t, SyncTime(t))
  <2>1. TouchBuffer(t, line, TRUE)
    BY <1>5 DEF SyncBody
  <2>2. pc[t] = "body" /\ op[t] \in SyncOps
    BY <1>5 DEF SyncBody, TypeInv, SyncOpsInSync, SyncPlaces
  <2>3. line \in Lines /\ line.what # "m"
    <3>1. SyncTime(t) \in Nat /\ user_threadid'[t] \in Threads \cup {Unregistered}
      <4>1. time[t] \in Nat
        BY DEF TypeInv, TypeOK
      <4>2. user_threadid' \in [Threads -> Threads \cup {Unregistered}]
        BY DEF TypeInv, TypeOK
      <4> QED BY <4>1, <4>2 DEF SyncTime
    <3> DEFINE what == CASE op[t] \in {"start", "register"} -> "tr"
                         [] op[t] = "fini" -> "tf"
                         [] op[t] = "unregistered_function" -> "f"
                         [] OTHER -> op[t]
    <3>2. what \in {"tr", "tf", "f", "start_roi", "end_roi"}
      BY <2>2 DEF SyncOps
    <3>3. line = [time |-> SyncTime(t), tid |-> user_threadid'[t], what |-> what]
      BY DEF SyncLine, Line
    <3> HIDE DEF what, line
    <3> QED BY <3>1, <3>2, <3>3 DEF Lines
  <2> HIDE DEF line
  <2> QED BY <2>1, <2>3, TouchTraced
<1>6. ASSUME NEW t \in Threads, NEW u \in Threads, FlushOther(t, u) PROVE Traced' = Traced
  <2>1. \/ UNCHANGED <<trace_file, trace_stream>>
        \/ /\ trace_file' = trace_file \o SyncedStream(u, time[t])
           /\ trace_stream' = [trace_stream EXCEPT ![u] = <<>>]
    BY <1>6 DEF FlushOther, file
  <2>2. CASE UNCHANGED <<trace_file, trace_stream>>
    BY <1>1, <2>2
  <2>3. CASE /\ trace_file' = trace_file \o SyncedStream(u, time[t])
             /\ trace_stream' = [trace_stream EXCEPT ![u] = <<>>]
    <3> DEFINE line == Line(time[t], user_threadid[u], "thread_sync")
    <3>1. line \in Lines /\ line.what # "m"
      BY DEF Line, Lines, TypeInv, TypeOK
    <3>2. SyncedStream(u, time[t]) \in {trace_stream[u], Append(trace_stream[u], line)}
      BY DEF SyncedStream
    <3> HIDE DEF line
    <3>3. CASE SyncedStream(u, time[t]) = trace_stream[u]
      BY <2>3, <3>3, WrittenAlone
    <3>4. CASE SyncedStream(u, time[t]) = Append(trace_stream[u], line)
      BY <2>3, <3>1, <3>4, WrittenLine
    <3> QED BY <3>2, <3>3, <3>4
  <2> QED BY <2>1, <2>2, <2>3
<1>7. ASSUME NEW t \in Threads, FinishThread(t) PROVE Traced' = Traced
  BY <1>7, WrittenAlone DEF FinishThread
<1>8. ASSUME NEW t \in Threads,
             \/ \E u \in Threads : Create(t, u)
             \/ \E kind \in {"access", "cas"}, F \in Footprints : MemoryAccessHeader(t, kind, F)
             \/ Fault(t) \/ \E kind \in SyncOps : EnterSync(t, kind)
      PROVE  Traced' = Traced
  BY <1>1, <1>8 DEF Create, MemoryAccessHeader, Fault, EnterSync, buffers, file
<1>9. ASSUME NEW t \in Threads,
             \/ ReleaseAddressLock(t) \/ AcquireAddressLock(t) \/ Execute(t) \/ ExecuteCAS(t)
             \/ PausedLock(t) \/ Restart(t) \/ TakeThreadLock(t) \/ ReleaseThreadLock(t)
             \/ StartThread(t) \/ LeaveSync(t)
      PROVE  Traced' = Traced
  BY <1>1, <1>9 DEF ReleaseAddressLock, AcquireAddressLock, Execute, ExecuteCAS, PausedLock,
                    Restart, TakeThreadLock, ReleaseThreadLock, StartThread, LeaveSync,
                    buffers, file
<1>10. CASE Terminated
  BY <1>2, <1>10 DEF Terminated
<1> QED BY <1>2, <1>3, <1>4, <1>5, <1>6, <1>7, <1>8, <1>9, <1>10 DEF Next, Choice, Continue

(***************************************************************************)
(* A single lock                                                           *)
(***************************************************************************)
\* Every access needs the lock, and an access that is traced before it is
\* performed is the routine the thread is in.
SingleLock ==
  \A t \in Threads :
    /\ pc[t] \in InAccess => index_lock_list[t] = {0}
    /\ pc[t] = "acquire" => op[t] \in {"access", "cas"}
    /\ pc[t] = "footer" => op[t] = "access"

\* The places of a thread that owns the lock of its access.
OwnsLock == {"footer", "execute", "cas", "cas_footer"}

LEMMA OneAccess ==
  ASSUME Locks = {0}, AccessInv, SingleLock, NEW t \in Threads, NEW u \in Threads,
         pc[t] \in OwnsLock, pc[u] \in OwnsLock
  PROVE  t = u
<1>1. 0 \in Locks /\ 0 \in index_lock_list[t] /\ 0 \in index_lock_list[u]
  BY DEF SingleLock, OwnsLock, InAccess, BeforeEntry
<1>2. address_lock[0] = t /\ address_lock[0] = u
  BY <1>1 DEF AccessInv, AddressOwner, OwnsLock
<1> QED BY <1>2

LEMMA SingleLockStep ==
  ASSUME Locks = {0}, TypeInv, TypeInv', LockInv, LockInv', AccessInv, NoFault, SingleLock,
         [Next]_vars
  PROVE  SingleLock'
<1> USE DEF InAccess, BeforeEntry
<1>1. /\ pc \in [Threads -> Places] /\ op \in [Threads -> Ops]
      /\ index_lock_list \in [Threads -> SUBSET Locks]
  BY DEF TypeInv, TypeOK
<1>2. CASE Quiet
  <2>1. UNCHANGED index_lock_list
    BY <1>2 DEF Quiet, addresses
  <2>2. \A t \in Threads : pc'[t] \in InAccess => pc'[t] = pc[t] /\ op'[t] = op[t]
    BY <1>2 DEF Quiet
  <2> HIDE DEF InAccess
  <2>3. \A t \in Threads : pc'[t] \in {"acquire", "footer"} => pc'[t] \in InAccess
    BY DEF InAccess
  <2> QED BY <2>1, <2>2, <2>3 DEF SingleLock
<1>3. ASSUME NEW t \in Threads, NEW kind \in {"access", "cas"}, NEW F \in Footprints,
             MemoryAccessHeader(t, kind, F)
      PROVE  SingleLock'
  <2>1. F = {0}
    BY FootprintsAssumption
  <2>2. /\ pc' = [pc EXCEPT ![t] = "acquire"] /\ op' = [op EXCEPT ![t] = kind]
        /\ index_lock_list' = [index_lock_list EXCEPT ![t] = F]
    BY <1>3 DEF MemoryAccessHeader
  <2> QED BY <1>1, <2>1, <2>2 DEF SingleLock
<1>4. ASSUME NEW t \in Threads, ReleaseAddressLock(t) PROVE SingleLock'
  <2>1. pc[t] = "app" /\ pc' = pc /\ op' = op
    BY <1>4 DEF ReleaseAddressLock, AccessInv, control
  <2>2. \E l \in index_lock_list[t] :
          index_lock_list' = [index_lock_list EXCEPT ![t] = @ \ {l}]
    BY <1>4 DEF ReleaseAddressLock
  <2> QED BY <1>1, <2>1, <2>2 DEF SingleLock
<1>5. ASSUME NEW t \in Threads, AcquireAddressLock(t) PROVE SingleLock'
  <2>1. pc[t] = "acquire" /\ op' = op /\ index_lock_list' = index_lock_list
    BY <1>5 DEF AcquireAddressLock
  <2>2. \E l \in Awaited(t) :
          pc' = [pc EXCEPT ![t] = IF Awaited(t) # {l} THEN "acquire"
                                  ELSE IF op[t] = "cas" THEN "cas" ELSE "footer"]
    BY <1>5 DEF AcquireAddressLock
  <2>3. /\ \A u \in Threads \ {t} : pc'[u] = pc[u]
        /\ pc'[t] \in {"acquire", "cas", "footer"} /\ (pc'[t] = "footer" => op[t] # "cas")
    BY <1>1, <2>2
  <2> QED BY <1>1, <2>1, <2>3 DEF SingleLock
<1>6. ASSUME NEW t \in Threads, Footer(t) \/ CASFooter(t) \/ Execute(t) \/ ExecuteCAS(t)
      PROVE  SingleLock'
  <2>1. /\ op' = op /\ index_lock_list' = index_lock_list /\ pc[t] \in InAccess
        /\ \E v \in {"cas_footer", "app", "execute", "paused"} : pc' = [pc EXCEPT ![t] = v]
    BY <1>6 DEF Footer, CASFooter, Execute, ExecuteCAS, AfterTouch, Resume, addresses
  <2> QED BY <1>1, <2>1 DEF SingleLock
<1> QED BY <1>2, <1>3, <1>4, <1>5, <1>6, QuietSteps DEF NoFault

(***************************************************************************)
(* The accesses in the order of their times                                *)
(***************************************************************************)
IsOrder(seq) ==
  /\ seq \in Seq(Lines)
  /\ \A line : line \in Traced <=> Has(seq, line)
  /\ \A line \in Traced : line.tid \in Threads
  /\ \A j, k \in DOMAIN seq : j < k => seq[j].time < seq[k].time

\* They are the accesses as performed, but for the one that has its entry and
\* is not performed, or is performed and has no entry.
IsEffect(seq) ==
  /\ effects \in Seq(Threads)
  /\ \A k \in DOMAIN seq : k \in DOMAIN effects => effects[k] = seq[k].tid
  /\ \A t \in Threads : pc[t] = "execute" =>
       Len(seq) = Len(effects) + 1 /\ seq[Len(seq)].tid = t /\ seq[Len(seq)].time = time[t]
  /\ \A t \in Threads : pc[t] = "cas_footer" =>
       Len(effects) = Len(seq) + 1 /\ effects[Len(effects)] = t
  /\ (\A t \in Threads : pc[t] \notin {"execute", "cas_footer"}) => Len(seq) = Len(effects)
  /\ (\A t \in Threads : pc[t] # "execute") =>
       \A k \in DOMAIN seq : seq[k].time <= executed[0]

LEMMA EffectAppend ==
  ASSUME NEW s \in Seq(Threads), NEW t \in Threads
  PROVE  /\ Append(s, t) \in Seq(Threads) /\ Len(Append(s, t)) = Len(s) + 1
         /\ Len(s) \in Nat /\ DOMAIN s = 1 .. Len(s) /\ DOMAIN Append(s, t) = 1 .. Len(s) + 1
         /\ \A k \in DOMAIN s : Append(s, t)[k] = s[k]
         /\ Append(s, t)[Len(s) + 1] = t
<1>1. /\ Append(s, t) \in Seq(Threads) /\ Len(Append(s, t)) = Len(s) + 1
      /\ \A i \in 1 .. Len(s) : Append(s, t)[i] = s[i]
      /\ Append(s, t)[Len(s) + 1] = t
  BY AppendProperties
<1>2. Len(s) \in Nat /\ DOMAIN s = 1 .. Len(s) /\ DOMAIN Append(s, t) = 1 .. Len(s) + 1
  BY <1>1, LenProperties
<1> QED BY <1>1, <1>2

\* An entry more, later than the others.
LEMMA OrderAppend ==
  ASSUME NEW seq, NEW line \in Lines, IsOrder(seq), Traced' = Traced \cup {line}, line.tid \in Threads,
         \A k \in DOMAIN seq : seq[k].time < line.time
  PROVE  IsOrder(Append(seq, line))'
<1> DEFINE more == Append(seq, line)
<1>1. seq \in Seq(Lines)
  BY DEF IsOrder
<1>2. /\ more \in Seq(Lines) /\ DOMAIN more = DOMAIN seq \cup {Len(seq) + 1}
      /\ \A i \in DOMAIN seq : more[i] = seq[i]
      /\ more[Len(seq) + 1] = line
      /\ Len(seq) \in Nat /\ DOMAIN seq = 1 .. Len(seq)
  BY <1>1, AppendLines, FileLines
<1> HIDE DEF more
<1>3. \A x : Has(more, x) <=> Has(seq, x) \/ x = line
  BY <1>2 DEF Has
<1>4. \A x : x \in Traced' <=> Has(more, x)
  BY <1>3 DEF IsOrder
<1>5. \A j, k \in DOMAIN more : j < k => more[j].time < more[k].time
  <2> SUFFICES ASSUME NEW j \in DOMAIN more, NEW k \in DOMAIN more, j < k
               PROVE  more[j].time < more[k].time
    OBVIOUS
  <2>1. j \in DOMAIN seq
    BY <1>2
  <2>2. CASE k \in DOMAIN seq
    BY <1>2, <2>1, <2>2 DEF IsOrder
  <2>3. CASE k = Len(seq) + 1
    BY <1>2, <2>1, <2>3
  <2> QED BY <1>2, <2>2, <2>3
<1>6. \A x \in Traced' : x.tid \in Threads
  BY DEF IsOrder
<1>7. IsOrder(more)'
  BY <1>2, <1>4, <1>5, <1>6 DEF IsOrder
<1> QED BY <1>7 DEF more

LEMMA OrderSame ==
  ASSUME NEW seq, IsOrder(seq), Traced' = Traced
  PROVE  IsOrder(seq)'
  BY DEF IsOrder

\* What is known of an entry when it is made.
LEMMA EntryMade ==
  ASSUME Locks = {0}, TypeInv, AccessInv, SingleLock, Registration, NEW t \in Threads,
         pc[t] \in {"footer", "cas_footer"}, NEW seq, IsOrder(seq), IsEffect(seq),
         TouchBuffer(t, Line(AccessTime(t), user_threadid[t], "m"), FALSE)
  PROVE  \E line \in Lines :
           /\ line.time = AccessTime(t) /\ line.tid = t
           /\ line.time > executed[0]
           /\ \A k \in DOMAIN seq : seq[k].time < line.time
           /\ IsOrder(Append(seq, line))'
<1>1. PICK line \in Lines : line = Line(AccessTime(t), user_threadid[t], "m")
  BY LineTypes DEF TypeInv
<1>2. line.time = AccessTime(t) /\ line.tid = t /\ line.what = "m"
  <2>1. user_threadid[t] = t
    BY DEF Registration, IsRegistered, Accessing
  <2> QED BY <1>1, <2>1 DEF Line
<1>3. line.time > executed[0]
  <2>1. 0 \in index_lock_list[t]
    BY DEF SingleLock, InAccess, BeforeEntry
  <2> QED BY <1>2, <2>1, EntryTime
<1>4. Traced' = Traced \cup {line}
  BY <1>1, <1>2, TouchTraced
<1>5. \A k \in DOMAIN seq : seq[k].time < line.time
  <2>1. \A u \in Threads : pc[u] # "execute"
    BY OneAccess DEF OwnsLock
  <2>2. \A k \in DOMAIN seq : seq[k].time <= executed[0]
    BY <2>1 DEF IsEffect
  <2>3. \A k \in DOMAIN seq : seq[k].time \in Nat
    BY FileLines DEF IsOrder
  <2>4. executed[0] \in Nat /\ line.time \in Nat
    BY LineFields DEF TypeInv, TypeOK
  <2> QED BY <1>3, <2>2, <2>3, <2>4
<1> QED BY <1>2, <1>3, <1>4, <1>5, OrderAppend

LEMMA FooterEffect ==
  ASSUME Locks = {0}, TypeInv, LockInv', AccessInv, SingleLock, Registration, NEW t \in Threads,
         Footer(t), UNCHANGED effects, NEW seq, IsOrder(seq), IsEffect(seq)
  PROVE  \E line \in Lines : IsOrder(Append(seq, line))' /\ IsEffect(Append(seq, line))'
<1>1. /\ pc[t] = "footer" /\ time' = [time EXCEPT ![t] = AccessTime(t)] /\ executed' = executed
      /\ pc \in [Threads -> Places] /\ time \in [Threads -> Nat]
  BY DEF Footer, history, TypeInv, TypeOK
<1>2. pc' = [pc EXCEPT ![t] = "execute"]
  <2>1. op[t] = "access"
    BY <1>1 DEF SingleLock
  <2>2. pc' = [pc EXCEPT ![t] = AfterTouch(t)] /\ AfterTouch(t) \in {"paused", "execute"}
    BY <2>1 DEF Footer, AfterTouch, Resume
  <2> QED BY <1>1, <2>2 DEF LockInv
<1>3. PICK line \in Lines :
        /\ line.time = AccessTime(t) /\ line.tid = t
        /\ IsOrder(Append(seq, line))'
  BY <1>1, EntryMade DEF Footer
<1>4. \A u \in Threads : /\ pc[u] \notin {"execute", "cas_footer"}
                         /\ u # t => pc'[u] \notin {"execute", "cas_footer"}
  BY <1>1, <1>2, OneAccess DEF OwnsLock
<1>5. seq \in Seq(Lines) /\ effects \in Seq(Threads) /\ Len(seq) = Len(effects)
  BY <1>4 DEF IsOrder, IsEffect
<1> DEFINE more == Append(seq, line)
<1>6. /\ Len(more) = Len(seq) + 1 /\ DOMAIN more = DOMAIN seq \cup {Len(seq) + 1}
      /\ \A k \in DOMAIN seq : more[k] = seq[k]
      /\ more[Len(more)] = line
      /\ Len(seq) \in Nat /\ DOMAIN effects = 1 .. Len(effects)
  BY <1>5, AppendLines, FileLines, EffectAppend
<1> HIDE DEF more
<1>7. \A k \in DOMAIN more : k \in DOMAIN effects => effects[k] = more[k].tid
  BY <1>5, <1>6 DEF IsEffect
<1>8. pc'[t] = "execute" /\ time'[t] = line.time
  BY <1>1, <1>2, <1>3
<1>9. IsEffect(more)'
  BY <1>3, <1>4, <1>5, <1>6, <1>7, <1>8 DEF IsEffect
<1> QED BY <1>3, <1>9 DEF more

LEMMA ExecuteEffect ==
  ASSUME Locks = {0}, TypeInv, AccessInv, SingleLock, NEW t \in Threads,
         Execute(t), effects' = Append(effects, t), NEW seq, IsOrder(seq), IsEffect(seq)
  PROVE  IsOrder(seq)' /\ IsEffect(seq)'
<1>1. /\ pc[t] = "execute" /\ pc' = [pc EXCEPT ![t] = "app"]
      /\ executed' = [l \in Locks |-> IF l \in index_lock_list[t] THEN time[t] ELSE executed[l]]
      /\ UNCHANGED <<trace_file, trace_stream>> /\ pc \in [Threads -> Places]
  BY DEF Execute, file, buffers, TypeInv, TypeOK
<1>2. Traced' = Traced
  BY <1>1 DEF Traced, InFile, InBuffer
<1>3. \A u \in Threads : pc'[u] \notin {"execute", "cas_footer"}
  BY <1>1, OneAccess DEF OwnsLock
<1>4. executed'[0] = time[t]
  <2>1. 0 \in index_lock_list[t]
    BY <1>1 DEF SingleLock, InAccess
  <2> QED BY <1>1, <2>1
<1>5. /\ seq \in Seq(Lines) /\ effects \in Seq(Threads) /\ Len(seq) = Len(effects) + 1
      /\ seq[Len(seq)].tid = t /\ seq[Len(seq)].time = time[t]
  BY <1>1 DEF IsOrder, IsEffect
<1>6. /\ effects' \in Seq(Threads) /\ Len(effects') = Len(seq) /\ DOMAIN effects' = DOMAIN seq
      /\ \A k \in DOMAIN effects : effects'[k] = effects[k]
      /\ effects'[Len(seq)] = t
      /\ DOMAIN seq = DOMAIN effects \cup {Len(seq)}
      /\ DOMAIN seq = 1 .. Len(seq) /\ Len(seq) \in Nat
      /\ \A k \in DOMAIN seq : seq[k].time \in Nat
  <2>1. /\ Len(seq) \in Nat /\ DOMAIN seq = 1 .. Len(seq)
        /\ \A k \in DOMAIN seq : seq[k].time \in Nat
    BY <1>5, FileLines
  <2>2. /\ effects' \in Seq(Threads) /\ Len(effects') = Len(effects) + 1
        /\ Len(effects) \in Nat /\ DOMAIN effects = 1 .. Len(effects)
        /\ DOMAIN effects' = 1 .. Len(effects) + 1
        /\ \A k \in DOMAIN effects : effects'[k] = effects[k]
        /\ effects'[Len(effects) + 1] = t
    BY <1>5, EffectAppend
  <2> QED BY <1>5, <2>1, <2>2
<1>7. \A k \in DOMAIN seq : seq[k].time <= time[t]
  <2> SUFFICES ASSUME NEW k \in DOMAIN seq PROVE seq[k].time <= seq[Len(seq)].time
    BY <1>5
  <2>1. k = Len(seq) \/ k < Len(seq)
    BY <1>6
  <2>2. Len(seq) \in DOMAIN seq
    BY <1>6
  <2>3. k < Len(seq) => seq[k].time < seq[Len(seq)].time
    BY <2>2 DEF IsOrder
  <2> QED BY <1>6, <2>1, <2>2, <2>3
<1>8. \A k \in DOMAIN seq : effects'[k] = seq[k].tid
  BY <1>5, <1>6 DEF IsEffect
<1> QED BY <1>2, <1>3, <1>4, <1>5, <1>6, <1>7, <1>8, OrderSame DEF IsEffect

LEMMA ExecuteCASEffect ==
  ASSUME Locks = {0}, TypeInv, AccessInv, SingleLock, NEW t \in Threads,
         ExecuteCAS(t), effects' = Append(effects, t), NEW seq, IsOrder(seq), IsEffect(seq)
  PROVE  IsOrder(seq)' /\ IsEffect(seq)'
<1>1. /\ pc[t] = "cas" /\ pc' = [pc EXCEPT ![t] = "cas_footer"] /\ executed' = executed
      /\ UNCHANGED <<trace_file, trace_stream>> /\ pc \in [Threads -> Places]
  BY DEF ExecuteCAS, file, buffers, TypeInv, TypeOK
<1>2. Traced' = Traced
  BY <1>1 DEF Traced, InFile, InBuffer
<1>3. /\ \A u \in Threads : pc[u] \notin {"execute", "cas_footer"}
      /\ \A u \in Threads \ {t} : pc'[u] \notin {"execute", "cas_footer"}
      /\ pc'[t] = "cas_footer"
  BY <1>1, OneAccess DEF OwnsLock
<1>4. /\ seq \in Seq(Lines) /\ effects \in Seq(Threads) /\ Len(seq) = Len(effects)
      /\ \A k \in DOMAIN seq : seq[k].time <= executed[0]
  BY <1>3 DEF IsOrder, IsEffect
<1>5. /\ effects' \in Seq(Threads) /\ Len(effects') = Len(seq) + 1
      /\ \A k \in DOMAIN effects : effects'[k] = effects[k]
      /\ effects'[Len(effects')] = t
      /\ DOMAIN seq = DOMAIN effects
  BY <1>4, EffectAppend, FileLines
<1>6. \A k \in DOMAIN seq : effects'[k] = seq[k].tid
  BY <1>5 DEF IsEffect
<1> QED BY <1>1, <1>2, <1>3, <1>4, <1>5, <1>6, OrderSame DEF IsEffect

LEMMA CASFooterEffect ==
  ASSUME Locks = {0}, TypeInv, LockInv', AccessInv, SingleLock, Registration, NEW t \in Threads,
         CASFooter(t), UNCHANGED effects, NEW seq, IsOrder(seq), IsEffect(seq)
  PROVE  \E line \in Lines : IsOrder(Append(seq, line))' /\ IsEffect(Append(seq, line))'
<1>1. /\ pc[t] = "cas_footer" /\ pc \in [Threads -> Places]
      /\ executed' = [l \in Locks |->
                        IF l \in index_lock_list[t] THEN AccessTime(t) ELSE executed[l]]
  BY DEF CASFooter, TypeInv, TypeOK
<1>2. pc' = [pc EXCEPT ![t] = "app"]
  <2>1. op[t] = "cas"
    BY <1>1 DEF AccessInv, AccessOp
  <2>2. pc' = [pc EXCEPT ![t] = AfterTouch(t)] /\ AfterTouch(t) \in {"paused", "app"}
    BY <2>1 DEF CASFooter, AfterTouch, Resume
  <2> QED BY <1>1, <2>2 DEF LockInv
<1>3. PICK line \in Lines :
        /\ line.time = AccessTime(t) /\ line.tid = t
        /\ \A k \in DOMAIN seq : seq[k].time < line.time
        /\ IsOrder(Append(seq, line))'
  BY <1>1, EntryMade DEF CASFooter
<1>4. \A u \in Threads : pc'[u] \notin {"execute", "cas_footer"}
  BY <1>1, <1>2, OneAccess DEF OwnsLock
<1>5. /\ seq \in Seq(Lines) /\ effects \in Seq(Threads)
      /\ Len(effects) = Len(seq) + 1 /\ effects[Len(effects)] = t
  BY <1>1 DEF IsOrder, IsEffect
<1>6. executed'[0] = line.time
  <2>1. 0 \in index_lock_list[t]
    BY <1>1 DEF SingleLock, InAccess, BeforeEntry
  <2> QED BY <1>1, <1>3, <2>1
<1> DEFINE more == Append(seq, line)
<1>7. /\ Len(more) = Len(seq) + 1 /\ DOMAIN more = DOMAIN seq \cup {Len(seq) + 1}
      /\ \A k \in DOMAIN seq : more[k] = seq[k]
      /\ more[Len(seq) + 1] = line
      /\ \A k \in DOMAIN seq : seq[k].time \in Nat
      /\ line.time \in Nat
  BY <1>5, AppendLines, FileLines, LineFields
<1> HIDE DEF more
<1>8. \A k \in DOMAIN more : k \in DOMAIN effects => effects[k] = more[k].tid
  BY <1>3, <1>5, <1>7 DEF IsEffect
<1>9. \A k \in DOMAIN more : more[k].time <= executed'[0]
  BY <1>3, <1>6, <1>7
<1>10. IsEffect(more)'
  BY <1>4, <1>5, <1>7, <1>8, <1>9 DEF IsEffect
<1> QED BY <1>3, <1>10 DEF more

\* Any other step changes neither.
LEMMA OtherEffect ==
  ASSUME TypeInv, TypeInv', LockInv, LockInv', AccessInv, NoFault, [Next]_vars,
         \A t \in Threads : ~Footer(t) /\ ~Execute(t) /\ ~ExecuteCAS(t) /\ ~CASFooter(t),
         UNCHANGED effects, NEW seq, IsOrder(seq), IsEffect(seq)
  PROVE  IsOrder(seq)' /\ IsEffect(seq)'
<1>1. Traced' = Traced
  BY TracedSteps
<1>2. pc \in [Threads -> Places] /\ time \in [Threads -> Nat]
  BY DEF TypeInv, TypeOK
<1> DEFINE Open == {"execute", "cas_footer"}
           Kept == /\ executed' = executed
                   /\ \A t \in Threads : pc'[t] \in Open \/ pc[t] \in Open =>
                        pc'[t] = pc[t] /\ time'[t] = time[t]
<1>3. CASE Quiet
  <2>1. Kept
    BY <1>3 DEF Quiet, history, InAccess, BeforeEntry
  <2> QED BY <1>1, <2>1, OrderSame DEF IsEffect
<1>4. ASSUME NEW t \in Threads,
             \/ \E kind \in {"access", "cas"}, F \in Footprints : MemoryAccessHeader(t, kind, F)
             \/ ReleaseAddressLock(t)
             \/ AcquireAddressLock(t)
      PROVE  IsOrder(seq)' /\ IsEffect(seq)'
  <2>1. /\ executed' = executed /\ pc[t] \in {"app", "ctxt", "acquire"}
        /\ \E v \in Places \ Open : \E x : pc' = [pc EXCEPT ![t] = v] /\ time' = [time EXCEPT ![t] = x]
    <3>1. CASE \E kind \in {"access", "cas"}, F \in Footprints : MemoryAccessHeader(t, kind, F)
      BY <3>1 DEF MemoryAccessHeader, Does, Idle, history, Places
    <3>2. CASE ReleaseAddressLock(t)
      <4>1. executed' = executed /\ pc[t] \in {"app", "ctxt"} /\ pc' = pc /\ time' = time
        BY <3>2 DEF ReleaseAddressLock, history, control
      <4>2. pc' = [pc EXCEPT ![t] = pc[t]] /\ time' = [time EXCEPT ![t] = time[t]]
        BY <1>2, <4>1
      <4> QED BY <1>2, <4>1, <4>2
    <3>3. CASE AcquireAddressLock(t)
      <4>1. PICK l \in Awaited(t) :
              /\ time' = [time EXCEPT ![t] = Later(time[t], address_timestamp[l])]
              /\ pc' = [pc EXCEPT ![t] = IF Awaited(t) # {l} THEN "acquire"
                                         ELSE IF op[t] = "cas" THEN "cas" ELSE "footer"]
        BY <3>3 DEF AcquireAddressLock
      <4> DEFINE v == IF Awaited(t) # {l} THEN "acquire"
                      ELSE IF op[t] = "cas" THEN "cas" ELSE "footer"
      <4>2. v \in Places \ Open
        BY DEF Places
      <4> HIDE DEF v
      <4>3. pc[t] = "acquire" /\ executed' = executed
        BY <3>3 DEF AcquireAddressLock, history
      <4> QED BY <4>1, <4>2, <4>3 DEF v
    <3> QED BY <1>4, <3>1, <3>2, <3>3
  <2>2. Kept
    BY <1>2, <2>1
  <2> QED BY <1>1, <2>2, OrderSame DEF IsEffect
<1> QED BY <1>3, <1>4, QuietSteps DEF NoFault

\* A step of the pintool in the chain: the order grows at its end, if at all.
LEMMA EffectStep ==
  ASSUME Locks = {0}, TypeInv, TypeInv', LockInv, LockInv', AccessInv, SingleLock, Registration,
         NoFault, TracerStep, NEW seq, IsOrder(seq), IsEffect(seq)
  PROVE  \/ IsOrder(seq)' /\ IsEffect(seq)'
         \/ \E line \in Lines : IsOrder(Append(seq, line))' /\ IsEffect(Append(seq, line))'
<1>1. /\ Next
      /\ \/ \E t \in Threads : Performs(t) /\ effects' = Append(effects, t)
         \/ (\A t \in Threads : ~Performs(t)) /\ UNCHANGED effects
  BY DEF TracerStep
<1>2. \A t \in Threads : /\ Footer(t) => pc[t] = "footer"
                         /\ CASFooter(t) => pc[t] = "cas_footer"
                         /\ Performs(t) => pc[t] \in {"execute", "cas"}
  BY DEF Footer, CASFooter, Performs, Execute, ExecuteCAS
<1>3. ASSUME NEW t \in Threads, Footer(t) \/ CASFooter(t) PROVE UNCHANGED effects
  BY <1>1, <1>2, <1>3, OneAccess DEF OwnsLock
<1>4. ASSUME NEW t \in Threads, Performs(t) PROVE effects' = Append(effects, t)
  BY <1>1, <1>2, <1>4, OneAccess DEF OwnsLock
<1>5. ASSUME NEW t \in Threads, Footer(t)
      PROVE  \E line \in Lines : IsOrder(Append(seq, line))' /\ IsEffect(Append(seq, line))'
  BY <1>3, <1>5, FooterEffect
<1>6. ASSUME NEW t \in Threads, CASFooter(t)
      PROVE  \E line \in Lines : IsOrder(Append(seq, line))' /\ IsEffect(Append(seq, line))'
  BY <1>3, <1>6, CASFooterEffect
<1>7. ASSUME NEW t \in Threads, Execute(t) PROVE IsOrder(seq)' /\ IsEffect(seq)'
  BY <1>4, <1>7, ExecuteEffect DEF Performs
<1>8. ASSUME NEW t \in Threads, ExecuteCAS(t) PROVE IsOrder(seq)' /\ IsEffect(seq)'
  BY <1>4, <1>8, ExecuteCASEffect DEF Performs
<1>9. CASE \A t \in Threads : ~Footer(t) /\ ~Execute(t) /\ ~ExecuteCAS(t) /\ ~CASFooter(t)
  <2>1. UNCHANGED effects
    BY <1>1, <1>9 DEF Performs
  <2> QED BY <1>1, <1>9, <2>1, OtherEffect
<1> QED BY <1>5, <1>6, <1>7, <1>8, <1>9

(***************************************************************************)
(* The accesses in the output                                              *)
(***************************************************************************)
CountIn(content, n) == Cardinality({i \in 1 .. n : content[i].what = "m"})

LEMMA CountGrows ==
  ASSUME NEW content, NEW n \in Nat, NEW k \in Nat, n <= k
  PROVE  CountIn(content, n) \in Nat /\ CountIn(content, n) <= CountIn(content, k)
<1> DEFINE S(m) == {i \in 1 .. m : content[i].what = "m"}
<1>1. ASSUME NEW m \in Nat PROVE IsFiniteSet(S(m))
  <2>1. IsFiniteSet(1 .. m) /\ S(m) \subseteq 1 .. m
    BY FS_Interval
  <2> QED BY <2>1, FS_Subset
<1>2. S(n) \subseteq S(k)
  OBVIOUS
<1> HIDE DEF S
<1>3. Cardinality(S(n)) \in Nat /\ Cardinality(S(n)) <= Cardinality(S(k))
  BY <1>1, <1>2, FS_Subset, FS_CardinalityType
<1> QED BY <1>3 DEF S, CountIn

LEMMA CountAppend ==
  ASSUME NEW content \in Seq(Lines), NEW line \in Lines
  PROVE  /\ \A n \in 0 .. Len(content) : CountIn(Append(content, line), n) = CountIn(content, n)
         /\ CountIn(Append(content, line), Len(content) + 1)
              = IF line.what = "m" THEN CountIn(content, Len(content)) + 1
                                   ELSE CountIn(content, Len(content))
<1> DEFINE more == Append(content, line)
           last == Len(content) + 1
           S(c, n) == {i \in 1 .. n : c[i].what = "m"}
<1>1. /\ \A i \in 1 .. Len(content) : more[i] = content[i]
      /\ more[last] = line /\ Len(content) \in Nat
  BY AppendLines, FileLines
<1> HIDE DEF more
<1>2. ASSUME NEW n \in 0 .. Len(content) PROVE CountIn(more, n) = CountIn(content, n)
  <2>1. S(more, n) = S(content, n)
    BY <1>1
  <2> QED BY <2>1 DEF CountIn
<1>3. IsFiniteSet(S(content, Len(content))) /\ last \notin S(content, Len(content))
  <2>1. IsFiniteSet(1 .. Len(content)) /\ S(content, Len(content)) \subseteq 1 .. Len(content)
    BY <1>1, FS_Interval
  <2>2. IsFiniteSet(S(content, Len(content)))
    BY <2>1, FS_Subset
  <2> QED BY <1>1, <2>2
<1>4. CASE line.what = "m"
  <2>1. S(more, last) = S(content, Len(content)) \cup {last}
    BY <1>1, <1>4
  <2>2. Cardinality(S(more, last)) = Cardinality(S(content, Len(content))) + 1
    <3> HIDE DEF S
    <3> QED BY <1>3, <2>1, FS_AddElement
  <2> QED BY <1>2, <1>4, <2>2 DEF CountIn, more
<1>5. CASE line.what # "m"
  <2>1. S(more, last) = S(content, Len(content))
    BY <1>1, <1>5
  <2> QED BY <1>2, <1>5, <2>1 DEF CountIn, more
<1> QED BY <1>4, <1>5

\* Up to the least of their lengths the accesses in the output are those in
\* the order, which has no gap.
Matches(seq) ==
  /\ AccessesOut(Len(out)) <= Len(seq)
  /\ \A i \in DOMAIN out : out[i].what = "m" =>
       AccessesOut(i) \in DOMAIN seq /\ seq[AccessesOut(i)] = out[i]
  /\ \A k \in 1 .. AccessesOut(Len(out)) : Has(out, seq[k])

LEMMA MatchesSame ==
  ASSUME NEW seq \in Seq(Lines), Matches(seq), out \in Seq(Lines), out' = out
  PROVE  Matches(seq)' /\ \A line \in Lines : Matches(Append(seq, line))'
<1>1. \A n : AccessesOut(n)' = AccessesOut(n)
  BY DEF AccessesOut
<1>2. AccessesOut(Len(out))' = AccessesOut(Len(out))
  BY DEF AccessesOut
<1>3. Matches(seq)'
  BY <1>1, <1>2 DEF Matches
<1>4. ASSUME NEW line \in Lines PROVE Matches(Append(seq, line))'
  <2> DEFINE more == Append(seq, line)
  <2>1. /\ Len(more) = Len(seq) + 1 /\ DOMAIN seq \subseteq DOMAIN more
        /\ \A k \in DOMAIN seq : more[k] = seq[k]
        /\ Len(seq) \in Nat /\ DOMAIN seq = 1 .. Len(seq)
    BY AppendLines, FileLines
  <2> HIDE DEF more
  <2>2. AccessesOut(Len(out)) \in Nat
    <3>1. Len(out) \in Nat /\ AccessesOut(Len(out)) = CountIn(out, Len(out))
      BY FileLines DEF AccessesOut, CountIn
    <3>2. CountIn(out, Len(out)) \in Nat
      BY <3>1, CountGrows
    <3> QED BY <3>1, <3>2
  <2>3. AccessesOut(Len(out)) <= Len(seq) /\ AccessesOut(Len(out)) <= Len(more)
    BY <2>1, <2>2 DEF Matches
  <2>4. \A i \in DOMAIN out : out[i].what = "m" =>
          AccessesOut(i) \in DOMAIN more /\ more[AccessesOut(i)] = out[i]
    BY <2>1 DEF Matches
  <2>5. \A k \in 1 .. AccessesOut(Len(out)) : Has(out, more[k])
    <3>1. \A k \in 1 .. AccessesOut(Len(out)) : k \in DOMAIN seq
      BY <2>1, <2>2, <2>3
    <3> QED BY <2>1, <3>1 DEF Matches
  <2>6. Matches(more)'
    BY <1>1, <1>2, <2>3, <2>4, <2>5 DEF Matches
  <2> QED BY <2>6 DEF more
<1> QED BY <1>3, <1>4

\* A line that goes out is not later than any access still to come: not one
\* that is queued, nor one of a thread whose register line is read, for the
\* last line read of that thread is not earlier; and a register line that is
\* not read yet comes after everything that is.
LEMMA EmitLeast ==
  ASSUME ChainInv, NEW line \in Lines, Emits(line), NEW other \in Traced, ~Has(out, other),
         other.tid \in Threads
  PROVE  line.time <= other.time
<1>1. /\ trace_file \in Seq(Lines) /\ lines_read \in Seq(Lines)
      /\ Len(trace_file) \in Nat /\ Len(lines_read) \in Nat
      /\ DOMAIN trace_file = 1 .. Len(trace_file) /\ DOMAIN lines_read = 1 .. Len(lines_read)
      /\ \A i \in DOMAIN trace_file : trace_file[i].time \in Nat
      /\ \A i \in DOMAIN lines_read : lines_read[i] \in Lines /\ lines_read[i].time \in Nat
  <2>1. trace_file \in Seq(Lines) /\ lines_read \in Seq(Lines)
    BY FileTypes DEF ChainInv, PintoolInv, UtilityInv, ListInv
  <2> QED BY <2>1, FileLines
<1>2. \A i \in DOMAIN lines_read : i \in DOMAIN trace_file /\ lines_read[i] = trace_file[i]
  BY DEF ChainInv, ReadInv
<1>3. PICK e \in DOMAIN lines_read : lines_read[e] = line
  BY DEF Emits, ChainInv, UtilityInv, ContentsInv
<1>4. other \in Lines /\ other.what = "m" /\ other.time \in Nat /\ line.time \in Nat
  BY LineFields DEF Traced
<1> DEFINE t == other.tid
<1>5. t \in Threads /\ t # Unregistered
  BY ThreadsAssumption DEF Unregistered
<1>6. ASSUME IsOpen(lines_read, t),
             \A i \in DOMAIN lines_read : lines_read[i].tid = t => lines_read[i].time < other.time
      PROVE  line.time <= other.time
  <2>1. t \in DOMAIN tt_list /\ tt_list[t] \in Nat /\ Shows(lines_read, t, tt_list[t])
    BY <1>6 DEF ChainInv, UtilityInv, ListInv
  <2>2. tt_list[t] < other.time
    BY <1>6, <2>1 DEF Shows
  <2>3. line.time <= tt_list[t]
    BY <2>1 DEF Emits
  <2> QED BY <1>4, <2>1, <2>2, <2>3
<1>7. ASSUME NEW r \in DOMAIN trace_file, r \notin DOMAIN lines_read,
             trace_file[r].what = "tr", trace_file[r].time < other.time
      PROVE  line.time <= other.time
  <2>1. e < r /\ e \in DOMAIN trace_file /\ trace_file[e] = line
    BY <1>1, <1>2, <1>3, <1>7
  <2>2. line.time < trace_file[r].time
    BY <1>7, <2>1 DEF ChainInv, PintoolInv, FileInv, SyncIsBarrier, IsSync
  <2>3. trace_file[r].time \in Nat
    BY <1>1
  <2> QED BY <1>4, <1>7, <2>2, <2>3
<1>8. ASSUME NEW r \in DOMAIN trace_file, trace_file[r].tid = t, trace_file[r].what = "tr",
             \A i \in DOMAIN lines_read :
               lines_read[i].tid = t => lines_read[i].time < other.time /\ lines_read[i].what # "tf",
             trace_file[r].time < other.time
      PROVE  line.time <= other.time
  <2>1. CASE r \in DOMAIN lines_read
    <3>1. IsOpen(lines_read, t)
      BY <1>2, <1>8, <2>1 DEF IsOpen, HasLine
    <3> QED BY <1>6, <1>8, <3>1
  <2>2. CASE r \notin DOMAIN lines_read
    BY <1>7, <1>8, <2>2
  <2> QED BY <2>1, <2>2
<1>9. CASE Has(lines_read, other)
  <2>1. other \in Queued
    BY <1>4, <1>9 DEF Has, ChainInv, UtilityInv, ContentsInv
  <2> QED BY <2>1 DEF Emits
<1>10. ASSUME NEW i \in DOMAIN trace_file, trace_file[i] = other, i \notin DOMAIN lines_read
       PROVE  line.time <= other.time
  <2> DEFINE before == SubSeq(trace_file, 1, i - 1)
  <2>1. /\ before \in Seq(Lines) /\ DOMAIN before = 1 .. i - 1 /\ Len(before) = i - 1
        /\ \A k \in 1 .. i - 1 : k \in DOMAIN trace_file /\ before[k] = trace_file[k]
    BY <1>1, Before
  <2>2. i \in 1 .. Len(trace_file) /\ i > Len(lines_read)
    BY <1>1, <1>10
  <2> HIDE DEF before
  <2>3. IsBeginning(before) /\ Len(before) + 1 = i
    BY <1>1, <2>1, <2>2 DEF IsBeginning
  <2>4. Follows(before, other)
    BY <1>10, <2>1, <2>3, LineFollows DEF ChainInv
  <2>5. IsOpen(before, t)
    BY <1>4, <1>5, <2>4 DEF Follows
  <2>6. PICK r \in DOMAIN before : before[r].tid = t /\ before[r].what = "tr"
    BY <2>5 DEF IsOpen, HasLine
  <2>7. \A k \in DOMAIN before : before[k].tid = t => before[k].time < other.time /\ before[k].what # "tf"
    BY <2>4, <2>5 DEF Follows, IsOpen, HasLine
  <2>8. \A k \in DOMAIN lines_read : k \in DOMAIN before /\ before[k] = lines_read[k]
    BY <1>1, <1>2, <2>1, <2>2
  <2>9. r \in DOMAIN trace_file /\ trace_file[r] = before[r]
    BY <2>1
  <2> QED BY <1>8, <2>6, <2>7, <2>8, <2>9
<1>11. ASSUME NEW u \in Threads, InBuffer(u, other) PROVE line.time <= other.time
  <2>1. PICK j \in DOMAIN trace_stream[u] : trace_stream[u][j] = other
    BY <1>11 DEF InBuffer, Has
  <2>2. trace_stream[u] # <<>>
    BY <2>1
  <2>3. u = t /\ IsRegistered(t) /\ ~Closed(t)
    BY <2>1, <2>2 DEF ChainInv, PintoolInv, FileInv, StreamInv
  <2>4. \A i \in DOMAIN trace_file : trace_file[i].tid = t =>
          trace_file[i].time < other.time /\ trace_file[i].what # "tf"
    BY <1>5, <2>1, <2>3 DEF ChainInv, PintoolInv, FileInv, OwnLines, FinishLines
  <2>5. PICK r \in DOMAIN trace_file : trace_file[r].tid = t /\ trace_file[r].what = "tr"
    BY <1>5, <2>3 DEF ChainInv, PintoolInv, FileInv, RegisterLines, OnlyLine
  <2> QED BY <1>2, <1>8, <2>4, <2>5
<1>12. CASE InFile(other)
  <2>1. PICK i \in DOMAIN trace_file : trace_file[i] = other
    BY <1>12 DEF InFile, Has
  <2>2. CASE i \in DOMAIN lines_read
    BY <1>2, <1>9, <2>1, <2>2 DEF Has
  <2> QED BY <1>10, <2>1, <2>2
<1> QED BY <1>11, <1>12 DEF Traced

\* What goes out next is the next access of the order, if it is one.
LEMMA EmitMatches ==
  ASSUME ChainInv, NEW line \in Lines, Emits(line), NEW seq, IsOrder(seq), Matches(seq)
  PROVE  Matches(seq)'
<1> DEFINE r == AccessesOut(Len(out))
<1> PICK last : last = Len(out) + 1
  OBVIOUS
<1>1. /\ out \in Seq(Lines) /\ out' = Append(out, line) /\ seq \in Seq(Lines)
      /\ line \in Queued
  BY DEF ChainInv, UtilityInv, ContentsInv, Emits, IsOrder
<1>2. /\ Len(out) \in Nat /\ DOMAIN out = 1 .. Len(out)
      /\ Len(seq) \in Nat /\ DOMAIN seq = 1 .. Len(seq)
      /\ \A k \in DOMAIN seq : seq[k].time \in Nat
      /\ Len(out') = last /\ DOMAIN out' = DOMAIN out \cup {last}
      /\ \A i \in DOMAIN out : out'[i] = out[i]
      /\ out'[last] = line
  BY <1>1, FileLines, AppendLines
<1>3. /\ \A i \in DOMAIN out : AccessesOut(i)' = AccessesOut(i)
      /\ AccessesOut(Len(out))' = IF line.what = "m" THEN r + 1 ELSE r
      /\ r \in Nat
      /\ \A i \in DOMAIN out : AccessesOut(i) \in Nat /\ AccessesOut(i) <= r
  <2>1. /\ \A n : AccessesOut(n) = CountIn(out, n) /\ AccessesOut(n)' = CountIn(out', n)
        /\ AccessesOut(Len(out))' = CountIn(out', last)
    BY <1>2 DEF AccessesOut, CountIn
  <2>2. /\ \A n \in 0 .. Len(out) : CountIn(out', n) = CountIn(out, n)
        /\ CountIn(out', last) = IF line.what = "m" THEN CountIn(out, Len(out)) + 1
                                                    ELSE CountIn(out, Len(out))
    BY <1>1, CountAppend
  <2>3. \A n \in 0 .. Len(out) : CountIn(out, n) \in Nat /\ CountIn(out, n) <= CountIn(out, Len(out))
    BY <1>2, CountGrows
  <2> QED BY <1>2, <2>1, <2>2, <2>3
<1> HIDE DEF r
<1>4. ASSUME line.what = "m" PROVE r + 1 \in DOMAIN seq /\ seq[r + 1] = line
  <2>1. line \in Traced
    <3>1. PICK i \in DOMAIN lines_read : lines_read[i] = line
      BY <1>1 DEF ChainInv, UtilityInv, ContentsInv
    <3>2. InFile(line)
      BY <3>1 DEF InFile, Has, ChainInv, ReadInv
    <3> QED BY <1>4, <3>2 DEF Traced
  <2>2. PICK k \in DOMAIN seq : seq[k] = line
    BY <2>1 DEF IsOrder, Has
  <2>3. ~Has(out, line)
    BY <1>1 DEF Has, ChainInv, UtilityInv, ContentsInv
  <2>4. k > r
    BY <1>2, <1>3, <2>2, <2>3 DEF Matches, r
  <2>5. CASE k > r + 1
    <3>1. r + 1 \in DOMAIN seq /\ r + 1 < k
      BY <1>2, <1>3, <2>5
    <3>2. seq[r + 1].time < line.time
      BY <2>2, <3>1 DEF IsOrder
    <3>3. seq[r + 1] \in Traced
      BY <3>1 DEF IsOrder, Has
    <3>4. ~Has(out, seq[r + 1])
      <4> SUFFICES ASSUME NEW i \in DOMAIN out, out[i] = seq[r + 1] PROVE FALSE
        BY DEF Has
      <4> DEFINE n == AccessesOut(i)
      <4>1. n \in DOMAIN seq /\ seq[n] = seq[r + 1]
        BY <3>3 DEF Matches, Traced
      <4>2. n < r + 1
        BY <1>3
      <4>3. seq[n].time < seq[r + 1].time
        BY <3>1, <4>1, <4>2 DEF IsOrder
      <4>4. seq[n].time \in Nat
        BY <1>2, <4>1
      <4> HIDE DEF n
      <4> QED BY <4>1, <4>3, <4>4
    <3>5. line.time <= seq[r + 1].time
      BY <3>3, <3>4, EmitLeast DEF IsOrder
    <3>6. line.time \in Nat /\ seq[r + 1].time \in Nat
      BY <1>2, <3>1, LineFields
    <3> QED BY <3>2, <3>5, <3>6
  <2>6. CASE k <= r + 1
    <3>1. k = r + 1
      BY <1>2, <1>3, <2>4, <2>6
    <3> QED BY <2>2, <3>1
  <2> QED BY <1>2, <1>3, <2>5, <2>6
<1>5. AccessesOut(Len(out))' <= Len(seq)
  <2>1. r <= Len(seq)
    BY DEF Matches, r
  <2>2. CASE line.what = "m"
    <3>1. r + 1 <= Len(seq) /\ AccessesOut(Len(out))' = r + 1
      BY <1>2, <1>3, <1>4, <2>2
    <3> QED BY <3>1
  <2>3. CASE line.what # "m"
    BY <1>3, <2>1, <2>3
  <2> QED BY <2>2, <2>3
<1>6. AccessesOut(last)' = AccessesOut(Len(out))'
  <2>1. Len(out') = last
    BY <1>2
  <2> QED BY <2>1 DEF AccessesOut
<1>7. ASSUME NEW i \in DOMAIN out', out'[i].what = "m"
      PROVE  AccessesOut(i)' \in DOMAIN seq /\ seq[AccessesOut(i)'] = out'[i]
  <2>1. CASE i \in DOMAIN out
    <3>1. AccessesOut(i)' = AccessesOut(i) /\ out'[i] = out[i]
      BY <1>2, <1>3, <2>1
    <3>2. AccessesOut(i) \in DOMAIN seq /\ seq[AccessesOut(i)] = out[i]
      BY <1>7, <2>1, <3>1 DEF Matches
    <3> QED BY <3>1, <3>2
  <2>2. CASE i = last
    <3>1. line.what = "m" /\ out'[i] = line
      BY <1>2, <1>7, <2>2
    <3>2. AccessesOut(i)' = r + 1
      BY <1>3, <1>6, <2>2, <3>1
    <3> QED BY <1>4, <3>1, <3>2
  <2> QED BY <1>2, <2>1, <2>2
<1>8. ASSUME NEW k \in 1 .. AccessesOut(Len(out))' PROVE Has(out', seq[k])
  <2>1. CASE k \in 1 .. r
    <3>1. Has(out, seq[k])
      BY <2>1 DEF Matches, r
    <3> QED BY <1>2, <3>1 DEF Has
  <2>2. CASE k \notin 1 .. r
    <3>1. line.what = "m" /\ k = r + 1
      BY <1>3, <2>2
    <3> QED BY <1>2, <1>4, <3>1 DEF Has
  <2> QED BY <2>1, <2>2
<1> QED BY <1>5, <1>7, <1>8 DEF Matches

(***************************************************************************)
(* The output is the execution                                             *)
(***************************************************************************)
ExecInv ==
  /\ AccessInv /\ SingleLock
  /\ \E seq : IsOrder(seq) /\ IsEffect(seq) /\ Matches(seq)

LEMMA ExecInvInit == PipelineInit => ExecInv
<1> SUFFICES ASSUME PipelineInit PROVE ExecInv
  OBVIOUS
<1>1. /\ trace_file = <<>> /\ \A t \in Threads : trace_stream[t] = <<>>
      /\ \A t \in Threads : pc[t] \in {"created", "unstarted"}
      /\ effects = <<>> /\ out = <<>>
  BY DEF PipelineInit, Init, Utility!Init
<1>2. AccessInv
  BY AccessInvInit DEF PipelineInit
<1>3. SingleLock
  BY <1>1 DEF SingleLock, InAccess, BeforeEntry
<1> DEFINE seq == <<>>
<1>4. seq \in Seq(Lines) /\ DOMAIN seq = {} /\ Len(seq) = 0
  OBVIOUS
<1>5. IsOrder(seq)
  <2>1. Traced = {}
    BY <1>1 DEF Traced, InFile, InBuffer, Has
  <2> QED BY <1>4, <2>1 DEF IsOrder, Has
<1>6. IsEffect(seq)
  BY <1>1, <1>4 DEF IsEffect
<1>7. Matches(seq)
  <2>1. AccessesOut(Len(out)) = 0
    <3>1. {i \in 1 .. 0 : out[i].what = "m"} = {}
      OBVIOUS
    <3> QED BY <1>1, <3>1, FS_EmptySet DEF AccessesOut
  <2> QED BY <1>1, <1>4, <2>1 DEF Matches
<1> QED BY <1>2, <1>3, <1>5, <1>6, <1>7 DEF ExecInv

LEMMA ExecTracer ==
  ASSUME Locks = {0}, Cooperative, NoFault, ChainInv, ChainInv', ExecInv, TracerStep
  PROVE  ExecInv'
<1>1. /\ TypeInv /\ TypeInv' /\ SyncOwner /\ LockInv /\ LockInv' /\ ClockInv /\ Registration
      /\ AccessInv /\ SingleLock /\ Next
  BY DEF ChainInv, PintoolInv, ControlInv, ExecInv, TracerStep
<1>2. AccessInv' /\ SingleLock'
  BY <1>1, OrderStep, SingleLockStep DEF Orderly, NoFault
<1>3. PICK seq : IsOrder(seq) /\ IsEffect(seq) /\ Matches(seq)
  BY DEF ExecInv
<1>4. /\ Matches(seq)'
      /\ \A line \in Lines : Matches(Append(seq, line))'
  <2>1. out' = out /\ out \in Seq(Lines) /\ seq \in Seq(Lines)
    BY <1>3 DEF TracerStep, mergeVars, ChainInv, UtilityInv, ContentsInv, IsOrder
  <2> QED BY <1>3, <2>1, MatchesSame
<1>5. \/ IsOrder(seq)' /\ IsEffect(seq)'
      \/ \E line \in Lines : IsOrder(Append(seq, line))' /\ IsEffect(Append(seq, line))'
  BY <1>1, <1>3, EffectStep
<1> QED BY <1>2, <1>4, <1>5 DEF ExecInv

\* A step that changes nothing of the pintool's.
LEMMA ExecSame ==
  ASSUME ExecInv, UNCHANGED <<vars, effects>>
  PROVE  /\ AccessInv' /\ SingleLock'
         /\ \A seq : IsOrder(seq) => IsOrder(seq)'
         /\ \A seq : IsEffect(seq) => IsEffect(seq)'
<1>1. /\ UNCHANGED <<pc, op, time, lamport_timestamp, trace_stream, index_lock_list, address_lock,
                      address_timestamp, trace_file, executed, performed, unlogged, effects>>
  BY DEF vars, control, buffers, addresses, file, history
<1>2. AccessInv' /\ SingleLock'
  BY <1>1 DEF ExecInv, AccessInv, AddressOwner, AddressClock, ExecutedClock, PerformedClock,
              OpenCAS, AccessOp, SingleLock
<1>3. Traced' = Traced
  BY <1>1 DEF Traced, InFile, InBuffer
<1>4. \A seq : IsOrder(seq) => IsOrder(seq)'
  BY <1>3, OrderSame
<1>5. \A seq : IsEffect(seq) => IsEffect(seq)'
  BY <1>1 DEF IsEffect
<1> QED BY <1>2, <1>4, <1>5

LEMMA ExecMerge ==
  ASSUME ChainInv, ExecInv, MergeStep
  PROVE  ExecInv'
<1>1. PICK seq : IsOrder(seq) /\ IsEffect(seq) /\ Matches(seq)
  BY DEF ExecInv
<1>2. AccessInv' /\ SingleLock' /\ IsOrder(seq)' /\ IsEffect(seq)'
  BY <1>1, ExecSame, MergeSteps
<1>3. Matches(seq)'
  <2>1. CASE out' = out
    <3>1. out \in Seq(Lines) /\ seq \in Seq(Lines)
      BY <1>1 DEF ChainInv, UtilityInv, ContentsInv, IsOrder
    <3> QED BY <1>1, <2>1, <3>1, MatchesSame
  <2>2. ASSUME NEW line \in Lines, Emits(line) PROVE Matches(seq)'
    BY <1>1, <2>2, EmitMatches
  <2>3. CASE Utility!ReadLine(trace_file[Len(lines_read) + 1])
    BY <2>1, <2>3 DEF Utility!ReadLine
  <2> QED BY <2>1, <2>2, <2>3, MergeSteps
<1> QED BY <1>2, <1>3 DEF ExecInv

LEMMA ExecInvStep ==
  ASSUME Locks = {0}, Cooperative, NoFault, ChainInv, ChainInv', ExecInv,
         [PipelineNext]_pipelineVars
  PROVE  ExecInv'
<1>1. CASE UNCHANGED pipelineVars
  <2>1. UNCHANGED <<vars, effects>> /\ out' = out
    BY <1>1 DEF pipelineVars, mergeVars
  <2>2. PICK seq : IsOrder(seq) /\ IsEffect(seq) /\ Matches(seq)
    BY DEF ExecInv
  <2>3. out \in Seq(Lines) /\ seq \in Seq(Lines)
    BY <2>2 DEF ChainInv, UtilityInv, ContentsInv, IsOrder
  <2>4. AccessInv' /\ SingleLock' /\ IsOrder(seq)' /\ IsEffect(seq)'
    BY <2>1, <2>2, ExecSame
  <2>5. Matches(seq)'
    BY <2>1, <2>2, <2>3, MatchesSame
  <2> QED BY <2>4, <2>5 DEF ExecInv
<1> QED BY <1>1, ExecTracer, ExecMerge DEF PipelineNext, Over

\* When the utility is done, every access is in the output.
LEMMA AllOut ==
  ASSUME ChainInv, NEW seq, IsOrder(seq), IsEffect(seq), Matches(seq), merge_pc = "done"
  PROVE  AccessesOut(Len(out)) = Len(effects)
<1>1. /\ FileClosed /\ Queued = {} /\ trace_file \in Seq(Lines) /\ lines_read \in Seq(Lines)
      /\ out \in Seq(Lines) /\ seq \in Seq(Lines)
  BY FileTypes DEF ChainInv, DoneInv, UtilityInv, RestInv, ListInv, ContentsInv, PintoolInv, IsOrder
<1>2. /\ Len(trace_file) \in Nat /\ Len(lines_read) \in Nat
      /\ DOMAIN trace_file = 1 .. Len(trace_file) /\ DOMAIN lines_read = 1 .. Len(lines_read)
      /\ Len(seq) \in Nat /\ DOMAIN seq = 1 .. Len(seq)
      /\ \A k \in DOMAIN seq : seq[k].time \in Nat
      /\ Len(out) \in Nat /\ DOMAIN out = 1 .. Len(out)
  BY <1>1, FileLines
<1>3. ASSUME NEW t \in Threads PROVE trace_stream[t] = <<>>
  <2>1. pc[t] \in {"unstarted", "finished"}
    BY <1>1 DEF FileClosed
  <2> QED BY <2>1 DEF Closed, ChainInv, PintoolInv, FileInv, StreamInv, ControlInv, Registration
<1>4. ASSUME NEW k \in DOMAIN seq PROVE Has(out, seq[k])
  <2>1. seq[k] \in Traced
    BY DEF IsOrder, Has
  <2>2. InFile(seq[k]) /\ seq[k].what = "m"
    BY <1>3, <2>1 DEF Traced, InBuffer, Has
  <2>3. PICK i \in DOMAIN trace_file : trace_file[i] = seq[k]
    BY <2>2 DEF InFile, Has
  <2>4. i \in DOMAIN lines_read
    BY <1>1, <1>2 DEF FileClosed, Unread
  <2>5. lines_read[i] = seq[k]
    BY <2>3, <2>4 DEF ChainInv, ReadInv
  <2> QED BY <1>1, <2>2, <2>4, <2>5 DEF Has, ChainInv, UtilityInv, ContentsInv
<1> DEFINE r == AccessesOut(Len(out))
<1>5. r \in Nat /\ \A i \in DOMAIN out : AccessesOut(i) <= r
  <2>1. \A n : AccessesOut(n) = CountIn(out, n)
    BY DEF AccessesOut, CountIn
  <2>2. \A n \in 0 .. Len(out) : CountIn(out, n) \in Nat /\ CountIn(out, n) <= CountIn(out, Len(out))
    BY <1>2, CountGrows
  <2> QED BY <1>2, <2>1, <2>2
<1>6. r <= Len(seq)
  BY DEF Matches
<1> HIDE DEF r
<1>7. Len(seq) <= r
  <2>1. CASE Len(seq) = 0
    BY <1>5, <2>1
  <2>2. CASE Len(seq) # 0
    <3> DEFINE k == Len(seq)
    <3>1. k \in DOMAIN seq
      BY <1>2, <2>2
    <3>2. PICK i \in DOMAIN out : out[i] = seq[k]
      BY <1>4, <3>1 DEF Has
    <3> DEFINE n == AccessesOut(i)
    <3>3. n \in DOMAIN seq /\ seq[n] = seq[k]
      <4>1. out[i].what = "m"
        BY <3>1, <3>2 DEF IsOrder, Has, Traced
      <4> QED BY <3>2, <4>1 DEF Matches
    <3> HIDE DEF n
    <3>4. n = k
      <4>1. ~(n < k)
        <5>1. n < k => seq[n].time < seq[k].time
          BY <3>1, <3>3 DEF IsOrder
        <5>2. seq[k].time \in Nat
          BY <1>2, <3>1
        <5> QED BY <3>3, <5>1, <5>2
      <4> QED BY <1>2, <3>3, <4>1
    <3> QED BY <1>5, <3>4 DEF n
  <2> QED BY <2>1, <2>2
<1>8. Len(seq) = Len(effects)
  <2>1. \A t \in Threads : pc[t] \notin {"execute", "cas_footer"}
    BY <1>1 DEF FileClosed
  <2> QED BY <2>1 DEF IsEffect
<1> QED BY <1>2, <1>5, <1>6, <1>7, <1>8 DEF r

LEMMA ExecMeans ==
  ASSUME ChainInv, ExecInv
  PROVE  OutputIsExecution
<1>1. PICK seq : IsOrder(seq) /\ IsEffect(seq) /\ Matches(seq)
  BY DEF ExecInv
<1>2. ASSUME NEW i \in DOMAIN out, out[i].what = "m", AccessesOut(i) \in DOMAIN effects
      PROVE  out[i].tid = effects[AccessesOut(i)]
  BY <1>1, <1>2 DEF Matches, IsEffect
<1>3. merge_pc = "done" => AccessesOut(Len(out)) = Len(effects)
  BY <1>1, AllOut
<1> QED BY <1>2, <1>3 DEF OutputIsExecution

\* With a single address lock, whose holders perform all accesses one after
\* the other, the tool chain puts out the accesses of the execution: the n-th
\* access of the output is the n-th that was performed, and in the end none
\* is missing.
THEOREM OutputIsTheExecution ==
  Cooperative /\ NoFault => (PipelineSpec /\ []NeverPaused => []OutputIsExecution)
<1> SUFFICES ASSUME Cooperative, NoFault
             PROVE  PipelineSpec /\ []NeverPaused => []OutputIsExecution
  OBVIOUS
<1>1. CASE Locks = {0}
  <2>1. ChainInv /\ NeverPaused' /\ [PipelineNext]_pipelineVars => ChainInv'
    BY ChainInvStep
  <2>2. ChainInv /\ ChainInv' /\ ExecInv /\ [PipelineNext]_pipelineVars => ExecInv'
    BY <1>1, ExecInvStep
  <2>3. ChainInv /\ ExecInv => OutputIsExecution
    BY ExecMeans
  <2> QED BY <2>1, <2>2, <2>3, ChainInvInit, ExecInvInit, PTL DEF PipelineSpec
<1>2. CASE Locks # {0}
  <2>1. OutputIsExecution
    BY <1>2 DEF OutputIsExecution
  <2> QED BY <2>1, PTL
<1> QED BY <1>1, <1>2

=============================================================================

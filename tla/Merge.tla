------------------------------- MODULE Merge -------------------------------
(***************************************************************************)
(* The merge utility (merge.cpp): it reads the trace file line by line,    *)
(* queues each line with its thread, and after each line writes out those  *)
(* that no thread can precede any more.                                    *)
(*                                                                         *)
(* The input is any file the pintool may write (TraceContract), or the     *)
(* beginning of one.  A step is one iteration of a loop: main's, for a     *)
(* line, or merge()'s, for a line that goes out.                           *)
(***************************************************************************)
EXTENDS Integers, Sequences, Bags

CONSTANTS
  Tids,         \* ids of registered threads
  MaxTime,      \* bound: times in the file
  MaxLines,     \* bound: lines in the file
  Reuse         \* may an id be registered again once its thread has finished?

ASSUME TidsAssumption == Tids \subseteq Nat
ASSUME BoundsAssumption == MaxTime \in Nat /\ MaxLines \in Nat
ASSUME InputAssumption == Reuse \in BOOLEAN

Contract == INSTANCE TraceContract

Unregistered == Contract!Unregistered

VARIABLES
  trace,              \* history: the lines read
  out,                \* the lines written
  pc,                 \* "read" and "merge" in the loops, "failed" after one of their
                      \* asserts, "left" after the last one, "done"
  queues,             \* thread_queue_map: id -> [entries, max_timestamp, finished]
  time_threadid_min,  \* the heap: <<time, id>> entries
  tt_list,            \* safe_timestamp: id -> time last seen
  safe_cache,         \* safe_timestamp: _safe_timestamp_cache
  active_threads

vars == <<trace, out, pc, queues, time_threadid_min, tt_list, safe_cache, active_threads>>

Lines == {l \in [time : 1 .. MaxTime, tid : Tids \cup {Unregistered},
                 what : {"tr", "tf", "thread_sync", "m"}] :
            l.tid = Unregistered => l.what = "m"}

Init ==
  /\ trace = <<>> /\ out = <<>>
  /\ pc = "read"
  /\ queues = <<>>
  /\ time_threadid_min = EmptyBag
  /\ tt_list = <<>>
  /\ safe_cache = 0
  /\ active_threads = 0

(***************************************************************************)
(* thread_queue_t and safe_timestamp_t                                     *)
(***************************************************************************)
NewQueue == [entries |-> <<>>, max_timestamp |-> 0, finished |-> FALSE]

\* find, or construct
QueueOf(tid) == IF tid \in DOMAIN queues THEN queues[tid] ELSE NewQueue

Put(f, x, v) == [y \in DOMAIN f \cup {x} |-> IF y = x THEN v ELSE f[y]]
Drop(f, x) == [y \in DOMAIN f \ {x} |-> f[y]]

IsLeast(x, S) == x \in S /\ \A y \in S : x <= y
Smallest(S) == CHOOSE x \in S : IsLeast(x, S)

\* The asserts of enqueue.
MayEnqueue(q, time) == time > q.max_timestamp /\ ~q.finished

Enqueue(q, line, finish) ==
  [entries |-> Append(q.entries, line), max_timestamp |-> line.time, finished |-> finish]

\* _update_cache: an empty list leaves the cache as it is.
UpdatedCache(list) ==
  IF list = <<>> THEN safe_cache ELSE Smallest({list[tid] : tid \in DOMAIN list})

\* Mutation of NeedUpdate: only a new thread renews the cache.
NeedUpdateNew(tid) == tid \notin DOMAIN tt_list

\* set_time renews the cache for a new thread and for one that held it back.
NeedUpdate(tid) == tid \in DOMAIN tt_list => tt_list[tid] <= safe_cache

SetTime(tid, time) ==
  /\ tt_list' = Put(tt_list, tid, time)
  /\ safe_cache' = IF NeedUpdate(tid) THEN UpdatedCache(tt_list') ELSE safe_cache

FinishThread(tid) ==
  /\ tt_list' = Drop(tt_list, tid)
  /\ safe_cache' = UpdatedCache(tt_list')

(***************************************************************************)
(* main                                                                    *)
(***************************************************************************)
\* The next line of the file: one that may follow those before it.
IsNext(line) ==
  /\ Contract!MayFollow(trace, line)
  /\ line.what = "tr" => Reuse \/ Contract!Count(trace, line.tid, "tr") = 0

\* Mutation of PushHead: every line goes on the heap.
PushHeadAlways(q) == TRUE

\* was_empty
PushHead(q) == q.entries = <<>>

\* Mutation of ActiveAfter: register lines are not counted.
ActiveAfterFinish(line) ==
  CASE line.what = "tf" -> active_threads - 1
    [] OTHER -> active_threads

ActiveAfter(line) ==
  CASE line.what = "tr" -> active_threads + 1
    [] line.what = "tf" -> active_threads - 1
    [] OTHER -> active_threads

\* The asserts on the way of a line to its queue.
Accepts(line) ==
  /\ line.what = "tf" => line.tid \in DOMAIN tt_list
  /\ line.what # "thread_sync" => MayEnqueue(QueueOf(line.tid), line.time)

\* The body of main's loop, up to merge(): a sync line only tells the time of
\* its thread; a finish line counts its thread out before it is queued.
ReadLine(line) ==
  LET isTF == line.what = "tf"
      isSync == line.what = "thread_sync"
      q == QueueOf(line.tid)
  IN /\ pc = "read"
     /\ trace' = Append(trace, line)
     /\ active_threads' = ActiveAfter(line)
     /\ IF isTF THEN FinishThread(line.tid)
        ELSE IF line.tid >= 0 THEN SetTime(line.tid, line.time)
        ELSE UNCHANGED <<tt_list, safe_cache>>
     /\ pc' = IF ~Accepts(line) THEN "failed" ELSE IF isSync THEN "read" ELSE "merge"
     /\ queues' = IF isSync THEN queues ELSE Put(queues, line.tid, Enqueue(q, line, isTF))
     /\ time_threadid_min' = IF ~isSync /\ PushHead(q)
                             THEN time_threadid_min (+) SetToBag({<<line.time, line.tid>>})
                             ELSE time_threadid_min
     /\ UNCHANGED out

(***************************************************************************)
(* merge                                                                   *)
(***************************************************************************)
\* An entry at the top of the heap; which of several is the heap's choice.
IsTop(e) ==
  /\ BagIn(e, time_threadid_min)
  /\ \A other \in BagToSet(time_threadid_min) : e[1] <= other[1]

\* Mutation of MayGo: other threads are not waited for.
MayGoAny(time) == TRUE

MayGo(time) == active_threads = 0 \/ time <= safe_cache

\* The asserts of the loop: the queue of the entry is there and has it first.
IsHead(e) ==
  /\ e[2] \in DOMAIN queues
  /\ queues[e[2]].entries # <<>>
  /\ Head(queues[e[2]].entries).time = e[1]

\* The top entry may go: write the head of its queue, and let the next entry
\* of that queue take its place on the heap.
MergeEntry(e) ==
  LET tid == e[2]
      left == Tail(queues[tid].entries)
      popped == time_threadid_min (-) SetToBag({e})
  IN /\ out' = Append(out, Head(queues[tid].entries))
     /\ queues' = IF left = <<>> /\ queues[tid].finished
                  THEN Drop(queues, tid)
                  ELSE [queues EXCEPT ![tid].entries = left]
     /\ time_threadid_min' = IF left = <<>> THEN popped
                             ELSE popped (+) SetToBag({<<Head(left).time, tid>>})
     /\ pc' = IF time_threadid_min' = EmptyBag THEN "read" ELSE "merge"
     /\ UNCHANGED <<trace, tt_list, safe_cache, active_threads>>

MergeTop ==
  /\ pc = "merge"
  /\ \E e \in BagToSet(time_threadid_min) :
       /\ IsTop(e) /\ MayGo(e[1])
       /\ IF IsHead(e) THEN MergeEntry(e)
          ELSE pc' = "failed" /\ UNCHANGED <<trace, out, queues, time_threadid_min, tt_list,
                                             safe_cache, active_threads>>

\* The top entry has to wait.
MergeStops ==
  /\ pc = "merge"
  /\ \E e \in BagToSet(time_threadid_min) : IsTop(e) /\ ~MayGo(e[1])
  /\ pc' = "read"
  /\ UNCHANGED <<trace, out, queues, time_threadid_min, tt_list, safe_cache, active_threads>>

\* The end of the file: nothing is left on the heap, or the last assert fails.
\* A file may end before its threads do: a line too long for the buffer of
\* getline, or a traced program that is killed, ends it anywhere.
EndOfFile ==
  /\ pc = "read"
  /\ trace # <<>>
  /\ pc' = IF time_threadid_min = EmptyBag THEN "done" ELSE "left"
  /\ UNCHANGED <<trace, out, queues, time_threadid_min, tt_list, safe_cache, active_threads>>

\* A file is longer by a line.
ReadNextLine ==
  /\ Len(trace) < MaxLines
  /\ \E line \in Lines : IsNext(line) /\ ReadLine(line)

Next == ReadNextLine \/ MergeTop \/ MergeStops \/ EndOfFile

Spec == Init /\ [][Next]_vars

(***************************************************************************)
(* Properties                                                              *)
(***************************************************************************)
Entries(tid) == {queues[tid].entries[i] : i \in DOMAIN queues[tid].entries}
Queued == UNION {Entries(tid) : tid \in DOMAIN queues}

TypeOK ==
  /\ trace \in Seq(Lines) /\ out \in Seq(Lines)
  /\ pc \in {"read", "merge", "failed", "left", "done"}
  /\ DOMAIN queues \subseteq Tids \cup {Unregistered}
  /\ Queued \subseteq Lines
  /\ DOMAIN tt_list \subseteq Tids
  /\ safe_cache \in Nat
  /\ active_threads \in Nat

\* The asserts of merge.cpp: what they test is true of every file the pintool
\* may write, and of every part of it from the beginning; lines are left over
\* at the end only if the file ended before its threads.
AssertsHold == pc # "failed" /\ (pc = "left" => Contract!ActiveIn(trace) # {})

\* The heap has one entry for each thread with lines queued, and it is for
\* the thread's earliest.
HeapHasHeads ==
  pc # "failed" =>
    time_threadid_min =
      SetToBag({<<Head(queues[tid].entries).time, tid>> :
                  tid \in {x \in DOMAIN queues : queues[x].entries # <<>>}})

\* "merge as many as allowable": after a line that is queued, no line is held
\* back that every active thread is known to be past; and what the utility
\* takes for that time is what the file shows.
MergesAllAllowable ==
  pc = "read" /\ trace # <<>> =>
    /\ Contract!ActiveIn(trace) # {} => safe_cache = Contract!Frontier(trace)
    /\ trace[Len(trace)].what # "thread_sync" =>
         \A line \in Queued : line.time > Contract!Frontier(trace)

Sorter == INSTANCE StreamSort
            WITH Dropped <- {l \in Lines : l.what = "thread_sync"},
                 input <- trace, inside <- Queued, done <- pc = "done"

\* The output is the input without its sync lines, sorted by time, with
\* nothing lost or repeated: every other line of the input is queued when it
\* is read, and goes out once, when no line queued or still to come is earlier.
SortsStream == Sorter!Spec
=============================================================================

-------------------------- MODULE TracerProperties --------------------------
(***************************************************************************)
(* What must be true of the pintool: of its locks, of its clocks, of the   *)
(* order the trace gives to memory accesses, and of the file the merge     *)
(* utility reads.                                                          *)
(***************************************************************************)
EXTENDS Tracer

Contract == INSTANCE TraceContract

\* The thread is inside a memory access that it has not performed, or not
\* traced, yet.
AccessDue(t) ==
  \/ pc[t] \in {"acquire", "footer", "execute", "cas", "cas_footer"}
  \/ pc[t] \in {"paused", "flush", "restart"} /\ op[t] = "access"

\* The address locks of that access.
due == [t \in Threads |-> IF AccessDue(t) THEN index_lock_list[t] ELSE {}]

Order == INSTANCE AtomicOrder
           WITH stamp <- executed, last <- performed, open <- unlogged

\* The type invariant; a buffer that reached its limit has been written.
TypeOK ==
  /\ pc \in [Threads -> Places]
  /\ op \in [Threads -> Ops]
  /\ time \in [Threads -> Nat]
  /\ flush_others \in [Threads -> SUBSET Threads]
  /\ lamport_timestamp \in [Threads -> Nat]
  /\ trace_stream \in [Threads -> Seq(Lines)]
  /\ \A t \in Threads : Len(trace_stream[t]) < AccessesFlush
  /\ emitted \in [Threads -> SUBSET Lines]
  /\ user_threadid \in [Threads -> Threads \cup {Unregistered}]
  /\ index_lock_list \in [Threads -> SUBSET Locks]
  /\ thread_lock \subseteq Threads
  /\ taken \subseteq Threads
  /\ start_fini_lock \in Threads \cup {Nobody}
  /\ address_lock \in [Locks -> Threads \cup {Nobody}]
  /\ address_timestamp \in [Locks -> Nat]
  /\ pin_threadid_set \subseteq Threads
  /\ in_roi \in BOOLEAN
  /\ trace_file \in Seq(Lines)
  /\ last_flushed \in [Threads -> Nat \cup {NotFlushed}]
  /\ last_flushed_cache \in Nat
  /\ executed \in [Locks -> Nat]
  /\ performed \in [Threads -> Nat]
  /\ unlogged \in [Locks -> Threads \cup {Nobody}]

(***************************************************************************)
(* Locks and clocks                                                        *)
(***************************************************************************)
\* acquire_all_thread_locks .. release_all_thread_locks: only the holder of
\* the start/finish lock has thread locks between steps, a synchronisation
\* holds each lock it took until it releases it, and it writes its line
\* holding them all.
ThreadLockDiscipline ==
  /\ taken \subseteq thread_lock
  /\ taken # {} => start_fini_lock # Nobody
  /\ \A t \in Threads :
       pc[t] \in {"body", "flush_all"} => taken = pin_threadid_set /\ start_fini_lock = t

\* The time a synchronisation read from the other threads is still the latest
\* when it uses it; once it has let a thread go, that thread is past it.
SyncTimeIsLatest ==
  \A t \in Threads :
    /\ pc[t] = "body" => \A u \in pin_threadid_set : lamport_timestamp[u] <= time[t]
    /\ pc[t] = "release" =>
         \A u \in pin_threadid_set :
           IF u \in taken THEN lamport_timestamp[u] <= time[t]
                          ELSE lamport_timestamp[u] >= time[t]

\* No clock goes back: neither a thread's, which other threads write when
\* they synchronise or flush it, nor an address lock's, which each holder
\* overwrites with its own.
ClocksAdvance ==
  [][/\ \A t \in Threads : lamport_timestamp'[t] >= lamport_timestamp[t]
     /\ \A l \in Locks : address_timestamp'[l] >= address_timestamp[l]]_vars

\* "All address locks and the accessing thread must be updated to this access
\* timestamp": an address lock that is free is never behind an access that was
\* performed under it, so the next access there is later.  Not so behind an
\* instruction that faults (README, "Disagreements").
LocksRememberAccesses ==
  \A l \in Locks : address_lock[l] = Nobody => address_timestamp[l] >= executed[l]

\* Timestamps order the accesses the way they were performed: the pintool
\* implements AtomicOrder (README, "Internals: Lamport Clock").
ImplementsAtomicOrder == Order!Spec

(***************************************************************************)
(* The trace file                                                          *)
(***************************************************************************)
\* What merge.cpp assumes of its input and asserts in part.
MergeContract == Contract!WellFormed(trace_file)

IsSync(line) ==
  \/ line.what \in {"tr", "tf", "start_roi", "end_roi"}
  \/ line.what = "f" /\ line.tid = Unregistered

\* A synchronisation separates the trace: what is in the file when its line
\* is written has an earlier time, and nothing written later has the same
\* time but the lines by which it flushed others.
SyncIsBarrier ==
  \A i, j \in DOMAIN trace_file :
    IsSync(trace_file[i]) =>
      /\ j < i => trace_file[j].time < trace_file[i].time
      /\ j > i /\ trace_file[j].what # "thread_sync" =>
           trace_file[j].time # trace_file[i].time

\* Nothing a thread traced is lost, repeated, or written after its finish
\* line: once it is finished its buffer is empty, every line it ever put there
\* is in the file, once, and not behind its finish line, which is later than
\* the last access it performed.
FinishedIsInFile ==
  \A t \in Threads : pc[t] = "finished" =>
    /\ trace_stream[t] = <<>>
    /\ \A line \in emitted[t] : \E i \in DOMAIN trace_file :
         /\ trace_file[i] = line
         /\ \A k \in DOMAIN trace_file :
              /\ trace_file[k] = line => k = i
              /\ trace_file[k].tid = t /\ trace_file[k].what = "tf" => i <= k
    /\ user_threadid[t] # Unregistered =>
         /\ t \notin Contract!ActiveIn(trace_file)
         /\ performed[t] < Contract!LastOf(trace_file, t)

\* "If ROI is used memory tracing will only occur while the ROI is active":
\* the last change of the region before an access, in trace time, starts it.
MemoryOnlyInROI ==
  RequireROI =>
    \A i \in DOMAIN trace_file : trace_file[i].what = "m" =>
      \E j \in DOMAIN trace_file :
        /\ trace_file[j].what = "start_roi"
        /\ trace_file[j].time < trace_file[i].time
        /\ \A k \in DOMAIN trace_file :
             trace_file[k].what = "end_roi" =>
               \/ trace_file[k].time < trace_file[j].time
               \/ trace_file[k].time > trace_file[i].time

\* "bounding how far apart threads can be in the trace file": between
\* routines, no known thread's last flush is further behind another's than
\* twice the allowed difference.
TimeSeparation ==
  (\A t \in Threads : pc[t] \in {"unstarted", "app", "finished"}) =>
    \A t, u \in pin_threadid_set :
      last_flushed[t] - last_flushed[u] <= 2 * TimestampDifference

(***************************************************************************)
(* Progress                                                                *)
(***************************************************************************)
\* No routine waits for ever, for a lock or for a thread: the program always
\* gets to run its own code again, or has ended.
RoutinesReturn ==
  \A t \in Threads : pc[t] \notin {"unstarted", "app", "finished"} ~>
                       pc[t] \in {"app", "finished"}
=============================================================================

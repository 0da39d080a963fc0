------------------------------- MODULE Tracer -------------------------------
(***************************************************************************)
(* The pintool (trace/trace.cpp): the analysis routines that run before    *)
(* and after every instruction of the traced program, the callbacks for    *)
(* threads and context changes, and the locks, clocks, buffers and trace   *)
(* file they share.                                                        *)
(*                                                                         *)
(* Grain of atomicity.  Waiting for a mutex is a step of its own wherever  *)
(* the code holds other mutexes or goes on to take more: address locks one *)
(* by one, the start/finish lock, every thread lock of a synchronisation.  *)
(* A critical section over the thread's own lock alone, with the file lock *)
(* nested in it, is one step, enabled when the thread lock is free.        *)
(***************************************************************************)
EXTENDS Integers, Sequences

CONSTANTS
  Threads,              \* pin THREADIDs
  Main,                 \* the thread the program starts with
  Locks,                \* indices of address_lock_bank
  Footprints,           \* the sets of address locks an instruction can need
  RegisterThreads,      \* knob -r
  RequireROI,           \* knob -i
  AccessesFlush,        \* knob -a
  TimestampDifference,  \* knob -d
  MaxTime,              \* bound: from this time on a thread can only finish
  Program               \* what the traced program does, see Acts

Acts == {"access", "cas", "fault", "function", "ctxt", "register",
         "start_roi", "end_roi", "detach"}

ASSUME ThreadsAssumption == Threads \subseteq Nat /\ Main \in Threads
ASSUME LocksAssumption == Locks \subseteq Nat
ASSUME FootprintsAssumption == Footprints \subseteq SUBSET Locks /\ {} \notin Footprints
ASSUME KnobsAssumption ==
  /\ RegisterThreads \in BOOLEAN
  /\ RequireROI \in BOOLEAN
  /\ AccessesFlush \in Nat \ {0}
  /\ TimestampDifference \in Nat \ {0}
ASSUME ProgramAssumption == MaxTime \in Nat /\ Program \subseteq Acts

Nobody == -1        \* the owner of a free mutex
Unregistered == -1  \* user_threadid of a thread that is not registered
NotFlushed == -1    \* last_flushed has no entry

VARIABLES
  pc,                   \* where each thread is, see Places
  op,                   \* the routine it is in, or was in last
  time,                 \* that routine's time: the running maximum, then the time it chose
  flush_others,         \* threads the routine found lagging
  lamport_timestamp,    \* thread_data_t
  trace_stream,         \* thread_data_t: buffered lines (their number is buffered_entries)
  emitted,              \* history: the lines a thread has put in its buffer
  user_threadid,        \* thread_data_t
  index_lock_list,      \* thread_data_t: address locks held, or being acquired
  thread_lock,          \* the threads whose thread_lock is locked between steps
  taken,                \* thread locks the running synchronisation has taken and not released
  start_fini_lock,      \* owner of thread_start_fini_lock
  address_lock,         \* owner of each address lock
  address_timestamp,    \* lamport_timestamp of each address lock
  pin_threadid_set,     \* threads whose start callback has run
  in_roi,
  trace_file,           \* lines written, in order
  last_flushed,         \* thread -> time of its last flush
  last_flushed_cache,
  executed,             \* history: lock -> time of the last access performed under it
  performed,            \* history: thread -> time of the last access it performed
  unlogged              \* history: lock -> thread whose CAS is performed and not yet traced

control == <<pc, op, time>>
buffers == <<lamport_timestamp, trace_stream, emitted, flush_others>>
mutexes == <<thread_lock, taken, start_fini_lock>>
addresses == <<index_lock_list, address_lock, address_timestamp>>
globals == <<user_threadid, pin_threadid_set, in_roi>>
file == <<trace_file, last_flushed, last_flushed_cache>>
history == <<executed, performed, unlogged>>
vars == <<control, buffers, mutexes, addresses, globals, file, history>>

\* The routines that synchronise all threads.
SyncOps == {"start", "register", "start_roi", "end_roi", "unregistered_function", "fini"}
Ops == SyncOps \cup {"none", "access", "cas", "function", "ctxt"}

\* Where a thread holds thread_start_fini_lock.
SyncPlaces == {"take", "body", "flush_all", "release", "leave"}
HasStartFini == SyncPlaces \cup {"flush"}
Places == HasStartFini \cup
  {"unstarted", "created",                             \* before the start callback
   "app",                                              \* the program's own code
   "acquire", "footer", "execute", "cas", "cas_footer",\* around a traced access
   "paused", "restart",                                \* touch_buffer without the thread lock
   "ctxt", "finished"}

Lines == [time : Nat, tid : Threads \cup {Unregistered},
          what : {"m", "f", "tr", "tf", "start_roi", "end_roi", "ctxt_change", "thread_sync"}]

Init ==
  /\ pc = [t \in Threads |-> IF t = Main THEN "created" ELSE "unstarted"]
  /\ op = [t \in Threads |-> "none"]
  /\ time = [t \in Threads |-> 0]
  /\ flush_others = [t \in Threads |-> {}]
  /\ lamport_timestamp = [t \in Threads |-> 0]
  /\ trace_stream = [t \in Threads |-> <<>>]
  /\ emitted = [t \in Threads |-> {}]
  /\ user_threadid = [t \in Threads |-> Unregistered]
  /\ index_lock_list = [t \in Threads |-> {}]
  /\ thread_lock = {}
  /\ taken = {}
  /\ start_fini_lock = Nobody
  /\ address_lock = [l \in Locks |-> Nobody]
  /\ address_timestamp = [l \in Locks |-> 0]
  /\ pin_threadid_set = {}
  /\ in_roi = FALSE
  /\ trace_file = <<>>
  /\ last_flushed = [t \in Threads |-> NotFlushed]
  /\ last_flushed_cache = 0
  /\ executed = [l \in Locks |-> 0]
  /\ performed = [t \in Threads |-> 0]
  /\ unlogged = [l \in Locks |-> Nobody]

(***************************************************************************)
(* Clocks and buffers                                                      *)
(***************************************************************************)
Later(a, b) == IF a > b THEN a ELSE b

Line(now, tid, what) == [time |-> now, tid |-> tid, what |-> what]

\* Mutation of FlushDue: the limit is tested before the entry is counted.
FlushDueLate(stream) == Len(stream) > AccessesFlush

\* ++buffered_entries >= accesses_flush
FlushDue(stream) == Len(stream) >= AccessesFlush

\* Too far behind for the file: the threshold that starts a flush of others.
Diverged(now, then) == now - then > TimestampDifference

\* diff >= timestamp_difference * .75
Lags(now, then) == 4 * (now - then) >= 3 * TimestampDifference

IsLeast(x, S) == x \in S /\ \A y \in S : x <= y

\* After a flush at time "now" that left the entries "flushed" in
\* last_flushed: renew the cached minimum when it looks too old and, if it
\* still is, pick the threads that lag.
CheckLaggards(t, now, flushed) ==
  LET known == {u \in Threads : flushed[u] # NotFlushed}
      late  == {u \in known : Lags(now, flushed[u])}
      Oldest(S, x) == IsLeast(x, {flushed[u] : u \in S})
  IN \/ /\ ~Diverged(now, last_flushed_cache)
        /\ flush_others' = [flush_others EXCEPT ![t] = {}]
        /\ UNCHANGED last_flushed_cache
     \/ /\ Diverged(now, last_flushed_cache)
        /\ \E x \in {flushed[u] : u \in known} :
             /\ Oldest(known, x)
             /\ ~Diverged(now, x)
             /\ last_flushed_cache' = x
        /\ flush_others' = [flush_others EXCEPT ![t] = {}]
     \/ /\ Diverged(now, last_flushed_cache)
        /\ \E x \in {flushed[u] : u \in known} : Oldest(known, x) /\ Diverged(now, x)
        /\ flush_others' = [flush_others EXCEPT ![t] = late]
        /\ \E x \in {flushed[u] : u \in known} :
             Oldest(known \ late, x) /\ last_flushed_cache' = x

\* Mutation of WithLine: the line replaces what is in the buffer.
OnlyThisLine(t, line) == <<line>>

\* The buffer of a thread with a new line.
WithLine(t, line) == Append(trace_stream[t], line)

\* touch_buffer, up to its last block: the line is in the buffer; move the
\* clock, flush this thread's buffer when it is full or "force" says so.
TouchBuffer(t, line, force) ==
  LET stream == WithLine(t, line)
      flushed == [last_flushed EXCEPT ![t] = line.time]
  IN /\ lamport_timestamp' = [lamport_timestamp EXCEPT ![t] = line.time]
     /\ emitted' = [emitted EXCEPT ![t] = @ \cup {line}]
     /\ \/ /\ FlushDue(stream) \/ force
           /\ trace_file' = trace_file \o stream
           /\ trace_stream' = [trace_stream EXCEPT ![t] = <<>>]
           /\ last_flushed' = flushed
           /\ CheckLaggards(t, line.time, flushed)
        \/ /\ ~(FlushDue(stream) \/ force)
           /\ trace_stream' = [trace_stream EXCEPT ![t] = stream]
           /\ flush_others' = [flush_others EXCEPT ![t] = {}]
           /\ UNCHANGED file

(***************************************************************************)
(* The traced program                                                      *)
(***************************************************************************)
\* Every analysis routine and callback first releases the address locks of
\* the previous instruction: until then nothing else can happen.
Idle(t) == pc[t] = "app" /\ index_lock_list[t] = {}

\* Mutation of OwnLockFree: a critical section without its mutex.
OwnLockIgnored(t) == t \in Threads

\* A critical section over the thread's own lock can begin.
OwnLockFree(t) == t \notin thread_lock

\* Mutation of StartFiniFree: thread_start_fini_lock is not taken.
StartFiniIgnored == start_fini_lock \in Threads \cup {Nobody}

\* thread_start_fini_lock can be taken.
StartFiniFree == start_fini_lock = Nobody

Does(t, act) == Idle(t) /\ act \in Program /\ lamport_timestamp[t] < MaxTime

\* A running thread creates another; Pin will run its start callback.
Create(t, u) ==
  /\ Idle(t)
  /\ pc[u] = "unstarted"
  /\ pc' = [pc EXCEPT ![u] = "created"]
  /\ UNCHANGED <<op, time, buffers, mutexes, addresses, globals, file, history>>

\* release_address_locks, one lock per step in index order: it takes on the
\* thread's clock and is free again.
ReleaseAddressLock(t) ==
  /\ pc[t] \in {"app", "ctxt"}
  /\ \E l \in index_lock_list[t] :
       /\ IsLeast(l, index_lock_list[t])
       /\ address_timestamp' = [address_timestamp EXCEPT ![l] = lamport_timestamp[t]]
       /\ address_lock' = [address_lock EXCEPT ![l] = Nobody]
       /\ index_lock_list' = [index_lock_list EXCEPT ![t] = @ \ {l}]
  /\ UNCHANGED <<control, buffers, mutexes, globals, file, history>>

(***************************************************************************)
(* Memory accesses                                                         *)
(***************************************************************************)
TracesAccess(t) ==
  /\ in_roi \/ ~RequireROI
  /\ user_threadid[t] # Unregistered

\* The header decides whether to trace, the operand routines say which locks
\* the instruction needs.  An access that is not traced changes nothing.
MemoryAccessHeader(t, kind, F) ==
  /\ Does(t, kind)
  /\ OwnLockFree(t)
  /\ TracesAccess(t)
  /\ pc' = [pc EXCEPT ![t] = "acquire"]
  /\ op' = [op EXCEPT ![t] = kind]
  /\ time' = [time EXCEPT ![t] = 0]
  /\ index_lock_list' = [index_lock_list EXCEPT ![t] = F]
  /\ UNCHANGED <<buffers, mutexes, address_lock, address_timestamp, globals, file, history>>

Awaited(t) == {l \in index_lock_list[t] : address_lock[l] # t}

\* acquire_address_locks: in index order, keeping the maximum of their times.
AcquireAddressLock(t) ==
  /\ pc[t] = "acquire"
  /\ \E l \in Awaited(t) :
       /\ IsLeast(l, Awaited(t))
       /\ address_lock[l] = Nobody
       /\ address_lock' = [address_lock EXCEPT ![l] = t]
       /\ time' = [time EXCEPT ![t] = Later(@, address_timestamp[l])]
       /\ pc' = [pc EXCEPT ![t] = IF Awaited(t) # {l} THEN "acquire"
                                  ELSE IF op[t] = "cas" THEN "cas" ELSE "footer"]
  /\ UNCHANGED <<op, buffers, mutexes, index_lock_list, address_timestamp,
                 globals, file, history>>

\* Mutations of AccessTime: no later than the clocks, the thread's clock alone.
AccessTimeSame(t) == Later(time[t], lamport_timestamp[t])
AccessTimeOfThread(t) == lamport_timestamp[t] + 1

\* "max(timestamp of all address locks acquired, thread timestamp)+1"
AccessTime(t) == Later(time[t], lamport_timestamp[t]) + 1

\* Where the thread goes on after touch_buffer: threads to flush come first.
Resume(t) == IF op[t] = "access" THEN "execute" ELSE "app"
AfterTouch(t) == IF flush_others'[t] # {} THEN "paused" ELSE Resume(t)

\* memory_access_footer_a before the instruction
Footer(t) ==
  /\ pc[t] = "footer"
  /\ OwnLockFree(t)
  /\ TouchBuffer(t, Line(AccessTime(t), user_threadid[t], "m"), FALSE)
  /\ time' = [time EXCEPT ![t] = AccessTime(t)]
  /\ pc' = [pc EXCEPT ![t] = AfterTouch(t)]
  /\ UNCHANGED <<op, mutexes, addresses, globals, history>>

\* The instruction, its locks held and its entry in the buffer.
Execute(t) ==
  /\ pc[t] = "execute"
  /\ executed' = [l \in Locks |-> IF l \in index_lock_list[t] THEN time[t] ELSE executed[l]]
  /\ performed' = [performed EXCEPT ![t] = time[t]]
  /\ pc' = [pc EXCEPT ![t] = "app"]
  /\ UNCHANGED <<op, time, buffers, mutexes, addresses, globals, file, unlogged>>

\* A compare-and-swap, performed before its entry exists ...
ExecuteCAS(t) ==
  /\ pc[t] = "cas"
  /\ unlogged' = [l \in Locks |-> IF l \in index_lock_list[t] THEN t ELSE unlogged[l]]
  /\ pc' = [pc EXCEPT ![t] = "cas_footer"]
  /\ UNCHANGED <<op, time, buffers, mutexes, addresses, globals, file, executed, performed>>

\* ... and memory_access_CAS_footer_a with memory_access_footer_a after it.
CASFooter(t) ==
  /\ pc[t] = "cas_footer"
  /\ OwnLockFree(t)
  /\ TouchBuffer(t, Line(AccessTime(t), user_threadid[t], "m"), FALSE)
  /\ time' = [time EXCEPT ![t] = AccessTime(t)]
  /\ executed' = [l \in Locks |->
                    IF l \in index_lock_list[t] THEN AccessTime(t) ELSE executed[l]]
  /\ performed' = [performed EXCEPT ![t] = AccessTime(t)]
  /\ unlogged' = [l \in Locks |-> IF l \in index_lock_list[t] THEN Nobody ELSE unlogged[l]]
  /\ pc' = [pc EXCEPT ![t] = AfterTouch(t)]
  /\ UNCHANGED <<op, mutexes, addresses, globals>>

\* The instruction faults: its effect and what follows it do not happen, and
\* the context change callback runs in their place.
Fault(t) ==
  /\ pc[t] \in {"execute", "cas"}
  /\ "fault" \in Program
  /\ pc' = [pc EXCEPT ![t] = "ctxt"]
  /\ UNCHANGED <<op, time, buffers, mutexes, addresses, globals, file, history>>

(***************************************************************************)
(* Routines of one thread                                                  *)
(***************************************************************************)
\* A line at the thread's own clock + 1, under its own lock.
TraceLocally(t, kind, line) ==
  /\ OwnLockFree(t)
  /\ TouchBuffer(t, line, FALSE)
  /\ op' = [op EXCEPT ![t] = kind]
  /\ time' = [time EXCEPT ![t] = line.time]
  /\ pc' = [pc EXCEPT ![t] = IF flush_others'[t] # {} THEN "paused" ELSE "app"]
  /\ UNCHANGED <<mutexes, addresses, globals, history>>

\* function_call_a and function_return_a on a registered thread
FunctionRegistered(t) ==
  /\ Does(t, "function")
  /\ user_threadid[t] # Unregistered
  /\ TraceLocally(t, "function", Line(lamport_timestamp[t] + 1, user_threadid[t], "f"))

\* ctxt_change_release, on any thread
ContextChange(t) ==
  /\ Does(t, "ctxt") \/ (pc[t] = "ctxt" /\ index_lock_list[t] = {})
  /\ TraceLocally(t, "ctxt", Line(lamport_timestamp[t] + 1, user_threadid[t], "ctxt_change"))

(***************************************************************************)
(* Flushing the threads that lag (attempt_flush_others)                    *)
(***************************************************************************)
\* pause() has unlocked the thread lock; the start/finish lock is next.
PausedLock(t) ==
  /\ pc[t] = "paused"
  /\ StartFiniFree
  /\ start_fini_lock' = t
  /\ pc' = [pc EXCEPT ![t] = "flush"]
  /\ UNCHANGED <<op, time, buffers, thread_lock, taken, addresses, globals, file, history>>

AfterFlush == IF taken = {} THEN "leave" ELSE "release"

\* Mutation of SyncedStream: the synchronisation line comes first.
SyncedStreamFirst(u, now) ==
  IF user_threadid[u] # Unregistered
  THEN <<Line(now, user_threadid[u], "thread_sync")>> \o trace_stream[u]
  ELSE trace_stream[u]

\* Mutation of SyncedStream: the line replaces what is in the buffer.
SyncedStreamAlone(u, now) ==
  IF user_threadid[u] # Unregistered
  THEN <<Line(now, user_threadid[u], "thread_sync")>>
  ELSE trace_stream[u]

\* The buffer of a lagging thread with its synchronisation line.
SyncedStream(u, now) ==
  IF user_threadid[u] # Unregistered
  THEN Append(trace_stream[u], Line(now, user_threadid[u], "thread_sync"))
  ELSE trace_stream[u]

\* Mutation of OthersLeft: the loop does not advance.
OthersLeftSame(t, u) == flush_others[t] \cup {u}

\* What the loop over flush_others has left after u.
OthersLeft(t, u) == flush_others[t] \ {u}

\* One thread of flush_others: if it is still there and still lags, its clock
\* moves up to this thread's and its buffer goes to the file.
FlushOther(t, u) ==
  /\ pc[t] \in {"flush", "flush_all"}
  /\ u \in flush_others[t]
  /\ flush_others' = [flush_others EXCEPT ![t] = OthersLeft(t, u)]
  /\ pc' = [pc EXCEPT ![t] = IF OthersLeft(t, u) # {} THEN @
                             ELSE IF @ = "flush" THEN "restart" ELSE AfterFlush]
  /\ start_fini_lock' = IF pc'[t] = "restart" THEN Nobody ELSE start_fini_lock
  /\ \/ /\ u \in pin_threadid_set /\ Lags(time[t], lamport_timestamp[u])
        /\ pc[t] = "flush" => u \notin thread_lock
        /\ lamport_timestamp' = [lamport_timestamp EXCEPT ![u] = time[t]]
        /\ \/ /\ SyncedStream(u, time[t]) # <<>>
              /\ trace_file' = trace_file \o SyncedStream(u, time[t])
              /\ trace_stream' = [trace_stream EXCEPT ![u] = <<>>]
              /\ last_flushed' = [last_flushed EXCEPT ![u] = time[t]]
              /\ UNCHANGED last_flushed_cache
           \/ /\ SyncedStream(u, time[t]) = <<>>
              /\ UNCHANGED <<file, trace_stream>>
     \/ /\ \/ u \notin pin_threadid_set
           \/ /\ ~Lags(time[t], lamport_timestamp[u])
              /\ pc[t] = "flush" => u \notin thread_lock
        /\ UNCHANGED <<lamport_timestamp, trace_stream, file>>
  /\ UNCHANGED <<op, time, emitted, thread_lock, taken, addresses, globals, history>>

\* pause() did not record that it unlocked, so restart() does not lock again
\* and the destructor of the critical section unlocks a second time, whoever
\* holds the lock by now.
Restart(t) ==
  /\ pc[t] = "restart"
  /\ thread_lock' = thread_lock \ {t}
  /\ pc' = [pc EXCEPT ![t] = Resume(t)]
  /\ UNCHANGED <<op, time, buffers, taken, start_fini_lock, addresses, globals, file, history>>

(***************************************************************************)
(* Routines that synchronise all threads                                   *)
(***************************************************************************)
\* Main returns last, unless the program lets it end before its threads.
MayFinish(t) ==
  t = Main /\ "detach" \notin Program =>
    \A u \in Threads \ {Main} : pc[u] \in {"unstarted", "finished"}

MayEnter(t, kind) ==
  \/ kind = "start" /\ pc[t] = "created"
  \/ kind = "register" /\ Does(t, "register")
     /\ RegisterThreads /\ user_threadid[t] = Unregistered
  \/ kind \in {"start_roi", "end_roi"} /\ Does(t, kind)
  \/ kind = "unregistered_function" /\ Does(t, "function") /\ user_threadid[t] = Unregistered
  \/ kind = "fini" /\ Idle(t) /\ MayFinish(t)

\* A start callback with -r and the finish of an unregistered thread hold the
\* start/finish lock but synchronise nobody.
Synchronises(t, kind) ==
  /\ kind = "start" => ~RegisterThreads
  /\ kind = "fini" => user_threadid[t] # Unregistered

EnterSync(t, kind) ==
  /\ MayEnter(t, kind)
  /\ StartFiniFree
  /\ start_fini_lock' = t
  /\ op' = [op EXCEPT ![t] = kind]
  /\ time' = [time EXCEPT ![t] = 0]
  /\ pc' = [pc EXCEPT ![t] = IF ~Synchronises(t, kind) THEN "leave"
                             ELSE IF pin_threadid_set = {} THEN "body" ELSE "take"]
  /\ UNCHANGED <<buffers, thread_lock, taken, addresses, globals, file, history>>

\* acquire_all_thread_locks, one thread per step in THREADID order.
TakeThreadLock(t) ==
  /\ pc[t] = "take"
  /\ \E u \in pin_threadid_set \ taken :
       /\ IsLeast(u, pin_threadid_set \ taken)
       /\ u \notin thread_lock
       /\ thread_lock' = thread_lock \cup {u}
       /\ taken' = taken \cup {u}
       /\ time' = [time EXCEPT ![t] = Later(@, lamport_timestamp[u])]
       /\ pc' = [pc EXCEPT ![t] = IF pin_threadid_set \ taken = {u} THEN "body" ELSE "take"]
  /\ UNCHANGED <<op, buffers, start_fini_lock, addresses, globals, file, history>>

SyncLine(t, now) ==
  Line(now, user_threadid'[t],
       CASE op[t] \in {"start", "register"} -> "tr"
         [] op[t] = "fini" -> "tf"
         [] op[t] = "unregistered_function" -> "f"
         [] OTHER -> op[t])

\* Mutations of SyncTime: not past the other threads, the thread's own clock.
SyncTimeSame(t) == time[t]
SyncTimeOwn(t) == lamport_timestamp[t] + 1

\* acquire_all_thread_locks() + 1
SyncTime(t) == time[t] + 1

\* With every thread lock held: the line at the latest time + 1, written to
\* the file at once.
SyncBody(t) ==
  /\ pc[t] = "body"
  /\ user_threadid' = IF op[t] \in {"start", "register"}
                      THEN [user_threadid EXCEPT ![t] = t] ELSE user_threadid
  /\ in_roi' = IF op[t] \in {"start_roi", "end_roi"} THEN op[t] = "start_roi" ELSE in_roi
  /\ time' = [time EXCEPT ![t] = SyncTime(t)]
  /\ TouchBuffer(t, SyncLine(t, SyncTime(t)), TRUE)
  /\ pc' = [pc EXCEPT ![t] = IF flush_others'[t] # {} THEN "flush_all" ELSE AfterFlush]
  /\ UNCHANGED <<op, mutexes, addresses, pin_threadid_set, history>>

\* Mutation of ReleasedClock: the new timestamp is not set.
ReleasedClockKept(t, u) == lamport_timestamp[u]

\* The clock of a thread whose lock a synchronisation releases.
ReleasedClock(t, u) == time[t]

\* release_all_thread_locks: every thread takes on the time of the line.
ReleaseThreadLock(t) ==
  /\ pc[t] = "release"
  /\ \E u \in taken :
       /\ IsLeast(u, taken)
       /\ lamport_timestamp' = [lamport_timestamp EXCEPT ![u] = ReleasedClock(t, u)]
       /\ thread_lock' = thread_lock \ {u}
       /\ taken' = taken \ {u}
       /\ pc' = [pc EXCEPT ![t] = IF taken = {u} THEN "leave" ELSE "release"]
  /\ UNCHANGED <<op, time, start_fini_lock, trace_stream, emitted, flush_others, addresses,
                 globals, file, history>>

\* The new thread becomes known; its entry in last_flushed starts at 0 unless
\* the register line already made one.
StartThread(t) ==
  /\ pc[t] = "leave" /\ op[t] = "start"
  /\ pin_threadid_set' = pin_threadid_set \cup {t}
  /\ last_flushed' = [last_flushed EXCEPT ![t] = IF @ = NotFlushed THEN 0 ELSE @]
  /\ start_fini_lock' = Nobody
  /\ pc' = [pc EXCEPT ![t] = "app"]
  /\ UNCHANGED <<op, time, buffers, thread_lock, taken, addresses, user_threadid,
                 in_roi, trace_file, last_flushed_cache, history>>

\* The thread is forgotten; lines still buffered (an unregistered thread's)
\* go to the file, and only then does its entry in last_flushed go too.
FinishThread(t) ==
  /\ pc[t] = "leave" /\ op[t] = "fini"
  /\ OwnLockFree(t)
  /\ pin_threadid_set' = pin_threadid_set \ {t}
  /\ trace_file' = trace_file \o trace_stream[t]
  /\ trace_stream' = [trace_stream EXCEPT ![t] = <<>>]
  /\ last_flushed' = IF trace_stream[t] # <<>>
                     THEN [last_flushed EXCEPT ![t] = NotFlushed] ELSE last_flushed
  /\ start_fini_lock' = Nobody
  /\ pc' = [pc EXCEPT ![t] = "finished"]
  /\ UNCHANGED <<op, time, lamport_timestamp, emitted, flush_others, thread_lock, taken, addresses,
                 user_threadid, in_roi, last_flushed_cache, history>>

LeaveSync(t) ==
  /\ pc[t] = "leave" /\ op[t] \notin {"start", "fini"}
  /\ start_fini_lock' = Nobody
  /\ pc' = [pc EXCEPT ![t] = "app"]
  /\ UNCHANGED <<op, time, buffers, thread_lock, taken, addresses, globals, file, history>>

\* fini_a closes the file when every thread is gone.
Terminated ==
  /\ \A t \in Threads : pc[t] \in {"unstarted", "finished"}
  /\ UNCHANGED vars

(***************************************************************************)
(* The specification                                                       *)
(***************************************************************************)
\* What the program chooses to do next.
Choice(t) ==
  \/ \E u \in Threads : Create(t, u)
  \/ \E kind \in {"access", "cas"}, F \in Footprints : MemoryAccessHeader(t, kind, F)
  \/ FunctionRegistered(t)
  \/ ContextChange(t)
  \/ Fault(t)
  \/ \E kind \in SyncOps : EnterSync(t, kind)

\* What follows once it has chosen.
Continue(t) ==
  \/ ReleaseAddressLock(t)
  \/ AcquireAddressLock(t)
  \/ Footer(t)
  \/ Execute(t)
  \/ ExecuteCAS(t)
  \/ CASFooter(t)
  \/ PausedLock(t)
  \/ \E u \in Threads : FlushOther(t, u)
  \/ Restart(t)
  \/ TakeThreadLock(t)
  \/ SyncBody(t)
  \/ ReleaseThreadLock(t)
  \/ StartThread(t)
  \/ FinishThread(t)
  \/ LeaveSync(t)

Next == (\E t \in Threads : Choice(t) \/ Continue(t)) \/ Terminated

Spec == Init /\ [][Next]_vars

\* Every routine that has begun is scheduled until it returns; the program
\* runs on from an instruction to the next, where its address locks are
\* released; a created thread is started and a faulting one is interrupted.
\* What the program does otherwise, when it finishes included, is its choice.
Obliged(t) ==
  \/ Continue(t)
  \/ pc[t] = "created" /\ EnterSync(t, "start")
  \/ pc[t] = "ctxt" /\ ContextChange(t)

FairSpec == Spec /\ \A t \in Threads : WF_vars(Obliged(t))
=============================================================================

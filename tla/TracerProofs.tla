---------------------------- MODULE TracerProofs ----------------------------
(***************************************************************************)
(* Theorems about the pintool, for any number of threads and address       *)
(* locks, any knobs and any traced program.                                *)
(***************************************************************************)
EXTENDS TracerProperties, SequenceTheorems, TLAPS

USE ThreadsAssumption, LocksAssumption, FootprintsAssumption, KnobsAssumption,
    ProgramAssumption

(***************************************************************************)
(* Types                                                                   *)
(***************************************************************************)
\* A thread in a synchronisation runs one of the routines that synchronise,
\* so that the line it writes is one of theirs.
SyncOpsInSync == \A t \in Threads : pc[t] \in SyncPlaces => op[t] \in SyncOps

TypeInv == TypeOK /\ SyncOpsInSync

\* The cached minimum is renewed from an entry of last_flushed, and only
\* threads are picked to be flushed.
LEMMA LaggardTypes ==
  ASSUME NEW t \in Threads, NEW now, NEW flushed, CheckLaggards(t, now, flushed),
         flush_others \in [Threads -> SUBSET Threads]
  PROVE  /\ \/ UNCHANGED last_flushed_cache
            \/ \E u \in Threads : flushed[u] # NotFlushed /\ last_flushed_cache' = flushed[u]
         /\ flush_others' \in [Threads -> SUBSET Threads]
<1> DEFINE known == {u \in Threads : flushed[u] # NotFlushed}
           late == {u \in known : Lags(now, flushed[u])}
           times == {flushed[u] : u \in known}
<1>1. \/ UNCHANGED last_flushed_cache
      \/ \E x \in times : last_flushed_cache' = x
  BY DEF CheckLaggards
<1>2. \/ flush_others' = [flush_others EXCEPT ![t] = {}]
      \/ flush_others' = [flush_others EXCEPT ![t] = late]
  BY DEF CheckLaggards
<1>3. late \subseteq Threads
  OBVIOUS
<1>4. flush_others' \in [Threads -> SUBSET Threads]
  <2> HIDE DEF late
  <2> QED BY <1>2, <1>3
<1>5. ASSUME NEW x \in times PROVE \E u \in Threads : flushed[u] # NotFlushed /\ x = flushed[u]
  OBVIOUS
<1> QED BY <1>1, <1>4, <1>5

\* What touch_buffer writes is well typed, and it never leaves a buffer full.
LEMMA TouchBufferTypes ==
  ASSUME TypeOK, NEW t \in Threads, NEW line \in Lines, NEW force \in BOOLEAN,
         TouchBuffer(t, line, force)
  PROVE  /\ flush_others' \in [Threads -> SUBSET Threads]
         /\ lamport_timestamp' \in [Threads -> Nat]
         /\ trace_stream' \in [Threads -> Seq(Lines)]
         /\ emitted' \in [Threads -> SUBSET Lines]
         /\ \A u \in Threads : Len(trace_stream'[u]) < AccessesFlush
         /\ trace_file' \in Seq(Lines)
         /\ last_flushed' \in [Threads -> Nat \cup {NotFlushed}]
         /\ last_flushed_cache' \in Nat
<1> DEFINE stream == Append(trace_stream[t], line)
           flushed == [last_flushed EXCEPT ![t] = line.time]
<1>1. /\ trace_stream[t] \in Seq(Lines) /\ stream \in Seq(Lines)
      /\ Len(stream) = Len(trace_stream[t]) + 1
  BY DEF TypeOK
<1>2. line.time \in Nat
  BY DEF Lines
<1>3. lamport_timestamp' \in [Threads -> Nat] /\ emitted' \in [Threads -> SUBSET Lines]
  BY <1>2 DEF TouchBuffer, TypeOK
<1>4. CASE /\ FlushDue(stream) \/ force
           /\ trace_file' = trace_file \o stream
           /\ trace_stream' = [trace_stream EXCEPT ![t] = <<>>]
           /\ last_flushed' = flushed
           /\ CheckLaggards(t, line.time, flushed)
  <2>1. trace_file' \in Seq(Lines)
    BY <1>1, <1>4, ConcatProperties DEF TypeOK
  <2>2. flushed \in [Threads -> Nat \cup {NotFlushed}]
    BY <1>2 DEF TypeOK
  <2>3. trace_stream' \in [Threads -> Seq(Lines)]
    BY <1>4, EmptySeq DEF TypeOK
  <2>4. \A u \in Threads : Len(trace_stream'[u]) < AccessesFlush
    BY <1>4, EmptySeq DEF TypeOK
  <2>5. /\ UNCHANGED last_flushed_cache \/
             \E u \in Threads : flushed[u] # NotFlushed /\ last_flushed_cache' = flushed[u]
        /\ flush_others' \in [Threads -> SUBSET Threads]
    BY <1>4, LaggardTypes DEF TypeOK
  <2>6. last_flushed_cache' \in Nat
    <3> HIDE DEF flushed
    <3> QED BY <2>2, <2>5, SMTT(60) DEF TypeOK
  <2> QED BY <1>3, <1>4, <2>1, <2>2, <2>3, <2>4, <2>5, <2>6
<1>5. CASE /\ ~(FlushDue(stream) \/ force)
           /\ trace_stream' = [trace_stream EXCEPT ![t] = stream]
           /\ flush_others' = [flush_others EXCEPT ![t] = {}]
           /\ UNCHANGED file
  <2>1. Len(stream) < AccessesFlush
    BY <1>1, <1>5 DEF FlushDue
  <2> QED BY <1>1, <1>3, <1>5, <2>1 DEF TypeOK, file
<1> QED BY <1>4, <1>5 DEF TouchBuffer, WithLine

\* The lines the routines write are lines of the trace file.
LEMMA LineTypes ==
  ASSUME TypeOK, NEW t \in Threads
  PROVE  /\ AccessTime(t) \in Nat
         /\ Line(AccessTime(t), user_threadid[t], "m") \in Lines
         /\ Line(lamport_timestamp[t] + 1, user_threadid[t], "f") \in Lines
         /\ Line(lamport_timestamp[t] + 1, user_threadid[t], "ctxt_change") \in Lines
<1>1. /\ time[t] \in Nat /\ lamport_timestamp[t] \in Nat
      /\ user_threadid[t] \in Threads \cup {Unregistered}
  BY DEF TypeOK
<1>2. AccessTime(t) \in Nat
  BY ONLY <1>1 DEF AccessTime, Later
<1>3. lamport_timestamp[t] + 1 \in Nat
  BY ONLY <1>1
<1> QED BY ONLY <1>1, <1>2, <1>3 DEF Line, Lines

LEMMA TypeInit == Init => TypeInv
<1> SUFFICES ASSUME Init PROVE TypeInv
  OBVIOUS
<1> <<>> \in Seq(Lines) /\ Len(<<>>) = 0
  BY EmptySeq
<1>1. trace_stream \in [Threads -> Seq(Lines)] /\ trace_file \in Seq(Lines)
  BY DEF Init
<1>2. \A t \in Threads : Len(trace_stream[t]) < AccessesFlush
  <2>1. Len(<<>>) < AccessesFlush
    OBVIOUS
  <2> QED BY <2>1 DEF Init
<1>3. pc \in [Threads -> Places] /\ op \in [Threads -> Ops]
  BY DEF Init, Places, Ops
<1>4. SyncOpsInSync
  BY DEF Init, SyncOpsInSync, SyncPlaces
<1> QED BY <1>1, <1>2, <1>3, <1>4
        DEF Init, TypeInv, TypeOK, Nobody, Unregistered, NotFlushed

\* A line of one thread, written under its own lock.
LEMMA LocalTypes ==
  ASSUME TypeInv, NEW t \in Threads, NEW kind \in {"function", "ctxt"}, NEW line \in Lines,
         TraceLocally(t, kind, line)
  PROVE  TypeInv'
<1>1. TouchBuffer(t, line, FALSE)
  BY DEF TraceLocally
<1>2. line.time \in Nat
  BY DEF Lines
<1>3. /\ pc' \in [Threads -> Places] /\ op' \in [Threads -> Ops] /\ time' \in [Threads -> Nat]
      /\ SyncOpsInSync'
  BY <1>2 DEF TraceLocally, TypeInv, TypeOK, SyncOpsInSync, Places, SyncPlaces, Ops
<1> QED BY <1>1, <1>3, TouchBufferTypes
    DEF TraceLocally, TypeInv, TypeOK, mutexes, addresses, globals, history

LEMMA TypeStep == TypeInv /\ [Next]_vars => TypeInv'
<1> SUFFICES ASSUME TypeInv, [Next]_vars PROVE TypeInv'
  OBVIOUS
<1> USE DEF TypeInv, control, buffers, mutexes, addresses, globals, file, history
<1>1. CASE UNCHANGED vars
  BY <1>1 DEF vars, TypeOK, SyncOpsInSync
<1>2. ASSUME NEW t \in Threads, NEW u \in Threads, Create(t, u) PROVE TypeInv'
  BY <1>2 DEF Create, TypeOK, SyncOpsInSync, Places, SyncPlaces
<1>3. ASSUME NEW t \in Threads, NEW kind \in {"access", "cas"}, NEW F \in Footprints,
             MemoryAccessHeader(t, kind, F)
      PROVE  TypeInv'
  BY <1>3 DEF MemoryAccessHeader, TypeOK, SyncOpsInSync, Places, SyncPlaces, Ops
<1>4. ASSUME NEW t \in Threads, FunctionRegistered(t) PROVE TypeInv'
  <2> DEFINE line == Line(lamport_timestamp[t] + 1, user_threadid[t], "f")
  <2>1. line \in Lines /\ TouchBuffer(t, line, FALSE)
    BY <1>4, LineTypes DEF FunctionRegistered, TraceLocally
  <2>2. TraceLocally(t, "function", line)
    BY <1>4 DEF FunctionRegistered
  <2> HIDE DEF line
  <2> QED BY <2>1, <2>2, LocalTypes
<1>5. ASSUME NEW t \in Threads, ContextChange(t) PROVE TypeInv'
  BY <1>5, LineTypes, LocalTypes DEF ContextChange
<1>6. ASSUME NEW t \in Threads, Fault(t) PROVE TypeInv'
  BY <1>6 DEF Fault, TypeOK, SyncOpsInSync, Places, SyncPlaces
<1>7. ASSUME NEW t \in Threads, NEW kind \in SyncOps, EnterSync(t, kind) PROVE TypeInv'
  BY <1>7 DEF EnterSync, TypeOK, SyncOpsInSync, Places, HasStartFini, SyncPlaces, Ops
<1>8. ASSUME NEW t \in Threads, ReleaseAddressLock(t) PROVE TypeInv'
  <2> PICK l \in index_lock_list[t] :
         /\ address_timestamp' = [address_timestamp EXCEPT ![l] = lamport_timestamp[t]]
         /\ address_lock' = [address_lock EXCEPT ![l] = Nobody]
         /\ index_lock_list' = [index_lock_list EXCEPT ![t] = @ \ {l}]
    BY <1>8 DEF ReleaseAddressLock
  <2> QED BY <1>8 DEF ReleaseAddressLock, TypeOK, SyncOpsInSync
<1>9. ASSUME NEW t \in Threads, AcquireAddressLock(t) PROVE TypeInv'
  <2> PICK l \in Awaited(t) :
         /\ address_lock' = [address_lock EXCEPT ![l] = t]
         /\ time' = [time EXCEPT ![t] = Later(@, address_timestamp[l])]
         /\ pc' = [pc EXCEPT ![t] = IF Awaited(t) # {l} THEN "acquire"
                                    ELSE IF op[t] = "cas" THEN "cas" ELSE "footer"]
    BY <1>9 DEF AcquireAddressLock
  <2>1. Later(time[t], address_timestamp[l]) \in Nat
    BY DEF Later, Awaited, TypeOK
  <2>2. time' \in [Threads -> Nat]
    BY <2>1 DEF TypeOK
  <2>3. pc' \in [Threads -> Places] /\ SyncOpsInSync'
    BY <1>9 DEF AcquireAddressLock, TypeOK, SyncOpsInSync, Places, SyncPlaces
  <2> QED BY <1>9, <2>2, <2>3 DEF AcquireAddressLock, Awaited, TypeOK
<1>10. ASSUME NEW t \in Threads, Footer(t) PROVE TypeInv'
  <2> DEFINE line == Line(AccessTime(t), user_threadid[t], "m")
  <2>1. AccessTime(t) \in Nat /\ line \in Lines /\ TouchBuffer(t, line, FALSE)
    BY <1>10, LineTypes DEF Footer
  <2> HIDE DEF line
  <2>2. /\ flush_others' \in [Threads -> SUBSET Threads]
        /\ lamport_timestamp' \in [Threads -> Nat]
        /\ trace_stream' \in [Threads -> Seq(Lines)]
        /\ emitted' \in [Threads -> SUBSET Lines]
        /\ \A u \in Threads : Len(trace_stream'[u]) < AccessesFlush
        /\ trace_file' \in Seq(Lines)
        /\ last_flushed' \in [Threads -> Nat \cup {NotFlushed}]
        /\ last_flushed_cache' \in Nat
    BY <2>1, TouchBufferTypes
  <2>3. /\ pc' \in [Threads -> Places] /\ time' \in [Threads -> Nat]
        /\ SyncOpsInSync'
    BY <1>10, <2>1 DEF Footer, AfterTouch, Resume, TypeOK, SyncOpsInSync, Places, SyncPlaces
  <2>4. /\ executed' \in [Locks -> Nat] /\ performed' \in [Threads -> Nat]
        /\ unlogged' \in [Locks -> Threads \cup {Nobody}]
    BY <1>10, <2>1 DEF Footer, TypeOK
  <2> QED BY <1>10, <2>2, <2>3, <2>4 DEF Footer, TypeOK
<1>11. ASSUME NEW t \in Threads, Execute(t) PROVE TypeInv'
  BY <1>11 DEF Execute, TypeOK, SyncOpsInSync, Places, SyncPlaces
<1>12. ASSUME NEW t \in Threads, ExecuteCAS(t) PROVE TypeInv'
  BY <1>12 DEF ExecuteCAS, TypeOK, SyncOpsInSync, Places, SyncPlaces
<1>13. ASSUME NEW t \in Threads, CASFooter(t) PROVE TypeInv'
  <2> DEFINE line == Line(AccessTime(t), user_threadid[t], "m")
  <2>1. AccessTime(t) \in Nat /\ line \in Lines /\ TouchBuffer(t, line, FALSE)
    BY <1>13, LineTypes DEF CASFooter
  <2> HIDE DEF line
  <2>2. /\ flush_others' \in [Threads -> SUBSET Threads]
        /\ lamport_timestamp' \in [Threads -> Nat]
        /\ trace_stream' \in [Threads -> Seq(Lines)]
        /\ emitted' \in [Threads -> SUBSET Lines]
        /\ \A u \in Threads : Len(trace_stream'[u]) < AccessesFlush
        /\ trace_file' \in Seq(Lines)
        /\ last_flushed' \in [Threads -> Nat \cup {NotFlushed}]
        /\ last_flushed_cache' \in Nat
    BY <2>1, TouchBufferTypes
  <2>3. /\ pc' \in [Threads -> Places] /\ time' \in [Threads -> Nat]
        /\ SyncOpsInSync'
    BY <1>13, <2>1 DEF CASFooter, AfterTouch, Resume, TypeOK, SyncOpsInSync, Places, SyncPlaces
  <2>4. /\ executed' \in [Locks -> Nat] /\ performed' \in [Threads -> Nat]
        /\ unlogged' \in [Locks -> Threads \cup {Nobody}]
    BY <1>13, <2>1 DEF CASFooter, TypeOK
  <2> QED BY <1>13, <2>2, <2>3, <2>4 DEF CASFooter, TypeOK
<1>14. ASSUME NEW t \in Threads, PausedLock(t) PROVE TypeInv'
  BY <1>14 DEF PausedLock, TypeOK, SyncOpsInSync, Places, HasStartFini, SyncPlaces
<1>15. ASSUME NEW t \in Threads, NEW u \in Threads, FlushOther(t, u) PROVE TypeInv'
  <2>1. SyncedStream(u, time[t]) \in Seq(Lines)
    <3>1. Line(time[t], user_threadid[u], "thread_sync") \in Lines
      BY DEF TypeOK, Line, Lines
    <3>2. trace_stream[u] \in Seq(Lines)
      BY DEF TypeOK
    <3> QED BY <3>1, <3>2 DEF SyncedStream
  <2>2. /\ trace_file \o SyncedStream(u, time[t]) \in Seq(Lines)
        /\ <<>> \in Seq(Lines) /\ Len(<<>>) = 0
    BY <2>1, ConcatProperties, EmptySeq DEF TypeOK
  <2>3. /\ lamport_timestamp' \in [Threads -> Nat]
        /\ trace_stream' \in [Threads -> Seq(Lines)]
        /\ emitted' \in [Threads -> SUBSET Lines]
        /\ \A v \in Threads : Len(trace_stream'[v]) < AccessesFlush
        /\ trace_file' \in Seq(Lines)
        /\ last_flushed' \in [Threads -> Nat \cup {NotFlushed}]
        /\ last_flushed_cache' \in Nat
    <3> DEFINE stream == SyncedStream(u, time[t])
    <3> HIDE DEF stream
    <3>1. \/ UNCHANGED <<lamport_timestamp, trace_stream, file>>
          \/ /\ lamport_timestamp' = [lamport_timestamp EXCEPT ![u] = time[t]]
             /\ UNCHANGED <<file, trace_stream>>
          \/ /\ lamport_timestamp' = [lamport_timestamp EXCEPT ![u] = time[t]]
             /\ trace_file' = trace_file \o SyncedStream(u, time[t])
             /\ trace_stream' = [trace_stream EXCEPT ![u] = <<>>]
             /\ last_flushed' = [last_flushed EXCEPT ![u] = time[t]]
             /\ UNCHANGED last_flushed_cache
      BY <1>15 DEF FlushOther
    <3>3. trace_stream' = trace_stream \/ trace_stream' = [trace_stream EXCEPT ![u] = <<>>]
      BY <3>1
    <3>4. /\ trace_stream' \in [Threads -> Seq(Lines)]
          /\ \A v \in Threads : Len(trace_stream'[v]) < AccessesFlush
      <4>1. CASE trace_stream' = trace_stream
        BY <4>1 DEF TypeOK
      <4>2. CASE trace_stream' = [trace_stream EXCEPT ![u] = <<>>]
        <5>1. trace_stream' \in [Threads -> Seq(Lines)]
          BY <4>2, EmptySeq DEF TypeOK
        <5>2. \A v \in Threads : Len(trace_stream'[v]) < AccessesFlush
          BY <4>2, EmptySeq DEF TypeOK
        <5> QED BY <5>1, <5>2
      <4> QED BY <3>3, <4>1, <4>2
    <3>5. /\ time[t] \in Nat /\ lamport_timestamp \in [Threads -> Nat]
          /\ last_flushed \in [Threads -> Nat \cup {NotFlushed}]
      BY DEF TypeOK
    <3>6. lamport_timestamp' \in [Threads -> Nat]
      BY ONLY <3>1, <3>5
    <3>7. trace_file' \in Seq(Lines) /\ last_flushed_cache' \in Nat
      BY <2>2, <3>1 DEF TypeOK
    <3>8. last_flushed' \in [Threads -> Nat \cup {NotFlushed}]
      BY ONLY <3>1, <3>5 DEF file
    <3>9. emitted' \in [Threads -> SUBSET Lines]
      BY <1>15 DEF FlushOther, TypeOK
    <3> QED BY <3>4, <3>6, <3>7, <3>8, <3>9
  <2>4. /\ pc' \in [Threads -> Places]
        /\ SyncOpsInSync'
    BY <1>15 DEF FlushOther, AfterFlush, TypeOK, SyncOpsInSync, Places, HasStartFini, SyncPlaces
  <2> QED BY <1>15, <2>3, <2>4 DEF FlushOther, OthersLeft, TypeOK
<1>16. ASSUME NEW t \in Threads, Restart(t) PROVE TypeInv'
  BY <1>16 DEF Restart, Resume, TypeOK, SyncOpsInSync, Places, SyncPlaces
<1>17. ASSUME NEW t \in Threads, TakeThreadLock(t) PROVE TypeInv'
  <2> PICK u \in pin_threadid_set \ taken :
         /\ thread_lock' = thread_lock \cup {u}
         /\ taken' = taken \cup {u}
         /\ time' = [time EXCEPT ![t] = Later(@, lamport_timestamp[u])]
         /\ pc' = [pc EXCEPT ![t] = IF pin_threadid_set \ taken = {u} THEN "body" ELSE "take"]
    BY <1>17 DEF TakeThreadLock
  <2>1. Later(time[t], lamport_timestamp[u]) \in Nat
    BY DEF Later, TypeOK
  <2>2. time' \in [Threads -> Nat]
    BY <2>1 DEF TypeOK
  <2>3. pc' \in [Threads -> Places] /\ SyncOpsInSync'
    BY <1>17 DEF TakeThreadLock, TypeOK, SyncOpsInSync, Places, HasStartFini, SyncPlaces
  <2>4. taken' \subseteq Threads /\ thread_lock' \subseteq Threads
    BY DEF TypeOK
  <2>5. UNCHANGED <<op, buffers, start_fini_lock, addresses, globals, file, history>>
    BY <1>17 DEF TakeThreadLock
  <2> QED BY <2>2, <2>3, <2>4, <2>5 DEF TypeOK
<1>18. ASSUME NEW t \in Threads, SyncBody(t) PROVE TypeInv'
  <2>1. /\ user_threadid' \in [Threads -> Threads \cup {Unregistered}]
        /\ op[t] \in SyncOps
    BY <1>18 DEF SyncBody, TypeOK, SyncOpsInSync, SyncPlaces
  <2>2. SyncTime(t) \in Nat /\ SyncLine(t, SyncTime(t)) \in Lines
    <3>1. SyncTime(t) \in Nat /\ user_threadid'[t] \in Threads \cup {Unregistered}
      BY <2>1, SMTT(60) DEF SyncTime, TypeOK
    <3>2. \/ op[t] \in {"start", "register"}
          \/ op[t] = "fini"
          \/ op[t] = "unregistered_function"
          \/ op[t] \in {"start_roi", "end_roi"}
      BY <2>1 DEF SyncOps
    <3> QED BY <3>1, <3>2 DEF SyncLine, Line, Lines
  <2> QED BY <1>18, <2>1, <2>2, TouchBufferTypes
      DEF SyncBody, AfterFlush, TypeOK, SyncOpsInSync, Places, HasStartFini, SyncPlaces
<1>19. ASSUME NEW t \in Threads, ReleaseThreadLock(t) PROVE TypeInv'
  <2> PICK u \in taken :
         /\ lamport_timestamp' = [lamport_timestamp EXCEPT ![u] = time[t]]
         /\ thread_lock' = thread_lock \ {u}
         /\ taken' = taken \ {u}
         /\ pc' = [pc EXCEPT ![t] = IF taken = {u} THEN "leave" ELSE "release"]
    BY <1>19 DEF ReleaseThreadLock, ReleasedClock
  <2>1. pc' \in [Threads -> Places] /\ SyncOpsInSync'
    BY <1>19 DEF ReleaseThreadLock, TypeOK, SyncOpsInSync, Places, HasStartFini, SyncPlaces
  <2>2. /\ lamport_timestamp' \in [Threads -> Nat]
        /\ thread_lock' \subseteq Threads /\ taken' \subseteq Threads
    BY DEF TypeOK
  <2> QED BY <1>19, <2>1, <2>2 DEF ReleaseThreadLock, TypeOK
<1>20. ASSUME NEW t \in Threads, StartThread(t) PROVE TypeInv'
  BY <1>20 DEF StartThread, TypeOK, SyncOpsInSync, Places, SyncPlaces
<1>21. ASSUME NEW t \in Threads, FinishThread(t) PROVE TypeInv'
  <2>1. /\ trace_file \o trace_stream[t] \in Seq(Lines)
        /\ <<>> \in Seq(Lines) /\ Len(<<>>) = 0
    BY ConcatProperties, EmptySeq DEF TypeOK
  <2>2. last_flushed' \in [Threads -> Nat \cup {NotFlushed}]
    BY <1>21 DEF FinishThread, TypeOK
  <2>3. trace_stream' \in [Threads -> Seq(Lines)]
        /\ \A u \in Threads : Len(trace_stream'[u]) < AccessesFlush
    BY <1>21, <2>1, SMTT(60) DEF FinishThread, TypeOK
  <2>4. pc' \in [Threads -> Places] /\ SyncOpsInSync'
    BY <1>21 DEF FinishThread, TypeOK, SyncOpsInSync, Places, SyncPlaces
  <2> QED BY <1>21, <2>1, <2>2, <2>3, <2>4 DEF FinishThread, TypeOK
<1>22. ASSUME NEW t \in Threads, LeaveSync(t) PROVE TypeInv'
  BY <1>22 DEF LeaveSync, TypeOK, SyncOpsInSync, Places, SyncPlaces
<1>23. CASE Terminated
  BY <1>1, <1>23 DEF Terminated
<1> QED
  BY <1>1, <1>2, <1>3, <1>4, <1>5, <1>6, <1>7, <1>8, <1>9, <1>10, <1>11, <1>12, <1>13, <1>14,
     <1>15, <1>16, <1>17, <1>18, <1>19, <1>20, <1>21, <1>22, <1>23
  DEF Next, Choice, Continue

\* Every variable keeps its type, and no buffer reaches its limit between
\* steps (touch_buffer).
THEOREM TypeCorrect == Spec => []TypeOK
<1>1. TypeInv => TypeOK
  BY DEF TypeInv
<1> QED BY <1>1, TypeInit, TypeStep, PTL DEF Spec

(***************************************************************************)
(* Who holds the start/finish lock and the thread locks                    *)
(***************************************************************************)
\* The start/finish lock belongs to the thread inside the section it covers.
SyncOwner == \A t \in Threads : pc[t] \in HasStartFini <=> start_fini_lock = t

\* A step of a thread outside that section, or of the program.
Outside ==
  /\ UNCHANGED <<mutexes, pin_threadid_set>>
  /\ \/ UNCHANGED pc
     \/ \E t \in Threads, v \in Places \ (HasStartFini \cup {"restart"}) :
          pc[t] \notin HasStartFini \cup {"paused", "restart"} /\ pc' = [pc EXCEPT ![t] = v]

\* The steps that take, use or give up the locks of a synchronisation.
Inside(t) ==
  \/ \E kind \in SyncOps : EnterSync(t, kind)
  \/ PausedLock(t)
  \/ \E u \in Threads : FlushOther(t, u)
  \/ Restart(t)
  \/ TakeThreadLock(t)
  \/ SyncBody(t)
  \/ ReleaseThreadLock(t)
  \/ StartThread(t)
  \/ FinishThread(t)
  \/ LeaveSync(t)

LEMMA StepKinds ==
  ASSUME TypeInv, [Next]_vars
  PROVE  Outside \/ \E t \in Threads : Inside(t)
<1> USE DEF Outside, mutexes, globals, HasStartFini, SyncPlaces, Places
<1>1. CASE UNCHANGED vars
  BY <1>1 DEF vars, control
<1>2. ASSUME NEW t \in Threads, NEW u \in Threads, Create(t, u) PROVE Outside
  BY <1>2 DEF Create
<1>3. ASSUME NEW t \in Threads, NEW kind \in {"access", "cas"}, NEW F \in Footprints,
             MemoryAccessHeader(t, kind, F)
      PROVE  Outside
  BY <1>3 DEF MemoryAccessHeader, Does, Idle
<1>4. ASSUME NEW t \in Threads, FunctionRegistered(t) \/ ContextChange(t) PROVE Outside
  BY <1>4 DEF FunctionRegistered, ContextChange, TraceLocally, Does, Idle
<1>5. ASSUME NEW t \in Threads, Fault(t) \/ Execute(t) \/ ExecuteCAS(t) PROVE Outside
  BY <1>5 DEF Fault, Execute, ExecuteCAS
<1>6. ASSUME NEW t \in Threads, ReleaseAddressLock(t) PROVE Outside
  BY <1>6 DEF ReleaseAddressLock, control
<1>7. ASSUME NEW t \in Threads, AcquireAddressLock(t) PROVE Outside
  <2>1. \E v \in {"acquire", "cas", "footer"} : pc' = [pc EXCEPT ![t] = v]
    BY <1>7 DEF AcquireAddressLock
  <2> QED BY <1>7, <2>1 DEF AcquireAddressLock
<1>8. ASSUME NEW t \in Threads, Footer(t) \/ CASFooter(t) PROVE Outside
  <2>1. \E v \in {"paused", "execute", "app"} : pc' = [pc EXCEPT ![t] = v]
    BY <1>8 DEF Footer, CASFooter, AfterTouch, Resume
  <2> QED BY <1>8, <2>1 DEF Footer, CASFooter
<1>9. CASE Terminated
  BY <1>1, <1>9 DEF Terminated
<1> QED
  BY <1>1, <1>2, <1>3, <1>4, <1>5, <1>6, <1>7, <1>8, <1>9 DEF Next, Choice, Continue, Inside

LEMMA SyncOwnerStep == TypeInv /\ SyncOwner /\ [Next]_vars => SyncOwner'
<1> SUFFICES ASSUME TypeInv, SyncOwner, [Next]_vars PROVE SyncOwner'
  OBVIOUS
<1> pc \in [Threads -> Places] /\ Nobody \notin Threads
  BY DEF TypeInv, TypeOK, Nobody
<1> USE DEF SyncOwner, HasStartFini, SyncPlaces
<1>1. CASE Outside
  BY <1>1 DEF Outside, mutexes
<1>2. ASSUME NEW t \in Threads, NEW kind \in SyncOps, EnterSync(t, kind) PROVE SyncOwner'
  BY <1>2 DEF EnterSync, StartFiniFree
<1>3. ASSUME NEW t \in Threads, PausedLock(t) PROVE SyncOwner'
  BY <1>3 DEF PausedLock, StartFiniFree
<1>4. ASSUME NEW t \in Threads, NEW u \in Threads, FlushOther(t, u) PROVE SyncOwner'
  BY <1>4 DEF FlushOther, AfterFlush
<1>5. ASSUME NEW t \in Threads, Restart(t) PROVE SyncOwner'
  BY <1>5 DEF Restart, Resume
<1>6. ASSUME NEW t \in Threads, TakeThreadLock(t) PROVE SyncOwner'
  <2>1. \E v \in {"take", "body"} : pc' = [pc EXCEPT ![t] = v]
    BY <1>6 DEF TakeThreadLock
  <2> QED BY <1>6, <2>1 DEF TakeThreadLock
<1>7. ASSUME NEW t \in Threads, SyncBody(t) PROVE SyncOwner'
  BY <1>7 DEF SyncBody, AfterFlush, mutexes
<1>8. ASSUME NEW t \in Threads, ReleaseThreadLock(t) PROVE SyncOwner'
  <2>1. \E v \in {"leave", "release"} : pc' = [pc EXCEPT ![t] = v]
    BY <1>8 DEF ReleaseThreadLock
  <2> QED BY <1>8, <2>1 DEF ReleaseThreadLock
<1>9. ASSUME NEW t \in Threads, StartThread(t) \/ FinishThread(t) \/ LeaveSync(t)
      PROVE  SyncOwner'
  BY <1>9 DEF StartThread, FinishThread, LeaveSync
<1> QED
  BY StepKinds, <1>1, <1>2, <1>3, <1>4, <1>5, <1>6, <1>7, <1>8, <1>9 DEF Inside

LEMMA SyncOwnerInit == Init => SyncOwner
<1> SUFFICES ASSUME Init, NEW t \in Threads PROVE pc[t] \in HasStartFini <=> start_fini_lock = t
  BY DEF SyncOwner
<1>1. pc[t] \in {"created", "unstarted"}
  BY DEF Init
<1>2. start_fini_lock \notin Threads
  BY DEF Init, Nobody
<1> QED BY <1>1, <1>2 DEF HasStartFini, SyncPlaces

(***************************************************************************)
(* No touch_buffer has given up its thread lock to flush others.  Where    *)
(* one has, Restart unlocks what another thread may hold, and the locks no *)
(* longer protect anything: see the run TracerDoubleUnlock.                *)
(***************************************************************************)
NeverPaused == \A t \in Threads : pc[t] # "paused"

LockInv ==
  /\ \A t \in Threads : pc[t] \notin {"paused", "flush", "restart"}
  /\ thread_lock = taken
  /\ taken \subseteq pin_threadid_set
  /\ \A t \in Threads : pc[t] \in {"body", "flush_all"} => taken = pin_threadid_set
  /\ taken # {} => \E t \in Threads :
                      start_fini_lock = t /\ pc[t] \in {"take", "body", "flush_all", "release"}

LEMMA LockInvInit == Init => LockInv
<1> SUFFICES ASSUME Init PROVE LockInv
  OBVIOUS
<1>1. \A t \in Threads : pc[t] \in {"created", "unstarted"}
  BY DEF Init
<1>2. thread_lock = {} /\ taken = {} /\ pin_threadid_set = {}
  BY DEF Init
<1> QED BY <1>1, <1>2 DEF LockInv

LEMMA LockInvStep ==
  TypeInv /\ SyncOwner /\ NeverPaused' /\ LockInv /\ [Next]_vars => LockInv'
<1> SUFFICES ASSUME TypeInv, SyncOwner, NeverPaused', LockInv, [Next]_vars PROVE LockInv'
  OBVIOUS
<1> pc \in [Threads -> Places] /\ Nobody \notin Threads /\ taken \subseteq Threads
    /\ pin_threadid_set \subseteq Threads
  BY DEF TypeInv, TypeOK, Nobody
<1> USE DEF LockInv, NeverPaused, SyncOwner, HasStartFini, SyncPlaces
<1>1. CASE Outside
  BY <1>1 DEF Outside, mutexes, Places
<1>2. ASSUME NEW t \in Threads, NEW kind \in SyncOps, EnterSync(t, kind) PROVE LockInv'
  <2>1. taken = {} /\ thread_lock = {}
    BY <1>2 DEF EnterSync, StartFiniFree
  <2> QED BY <1>2, <2>1 DEF EnterSync, globals
<1>3. ASSUME NEW t \in Threads, PausedLock(t) PROVE FALSE
  BY <1>3 DEF PausedLock
<1>4. ASSUME NEW t \in Threads, NEW u \in Threads, FlushOther(t, u) PROVE LockInv'
  <2>1. pc[t] = "flush_all" /\ start_fini_lock = t
    BY <1>4 DEF FlushOther
  <2>2. \/ pc' = pc
        \/ taken = {} /\ pc' = [pc EXCEPT ![t] = "leave"]
        \/ taken # {} /\ pc' = [pc EXCEPT ![t] = "release"]
    BY <1>4, <2>1 DEF FlushOther, AfterFlush
  <2>3. start_fini_lock' = start_fini_lock
    BY <1>4, <2>1, <2>2 DEF FlushOther
  <2>4. UNCHANGED <<thread_lock, taken, pin_threadid_set>>
    BY <1>4 DEF FlushOther, globals
  <2> QED BY <2>1, <2>2, <2>3, <2>4
<1>5. ASSUME NEW t \in Threads, Restart(t) PROVE FALSE
  BY <1>5 DEF Restart
<1>6. ASSUME NEW t \in Threads, TakeThreadLock(t) PROVE LockInv'
  <2> PICK u \in pin_threadid_set \ taken :
         /\ thread_lock' = thread_lock \cup {u}
         /\ taken' = taken \cup {u}
         /\ pc' = [pc EXCEPT ![t] = IF pin_threadid_set \ taken = {u} THEN "body" ELSE "take"]
    BY <1>6 DEF TakeThreadLock
  <2>1. pc[t] = "take" /\ UNCHANGED <<start_fini_lock, pin_threadid_set>>
    BY <1>6 DEF TakeThreadLock, globals
  <2>2. start_fini_lock = t /\ \A v \in Threads \ {t} : pc[v] \notin HasStartFini
    BY <2>1
  <2>3. pc'[t] = "body" => taken' = pin_threadid_set'
    BY <2>1
  <2> QED BY <2>1, <2>2, <2>3
<1>7. ASSUME NEW t \in Threads, SyncBody(t) PROVE LockInv'
  <2>1. pc[t] = "body" /\ UNCHANGED <<mutexes, pin_threadid_set>>
    BY <1>7 DEF SyncBody
  <2>2. \/ pc' = [pc EXCEPT ![t] = "flush_all"]
        \/ taken = {} /\ pc' = [pc EXCEPT ![t] = "leave"]
        \/ taken # {} /\ pc' = [pc EXCEPT ![t] = "release"]
    BY <1>7 DEF SyncBody, AfterFlush
  <2> QED BY <2>1, <2>2 DEF mutexes
<1>8. ASSUME NEW t \in Threads, ReleaseThreadLock(t) PROVE LockInv'
  <2> PICK u \in taken :
         /\ thread_lock' = thread_lock \ {u}
         /\ taken' = taken \ {u}
         /\ pc' = [pc EXCEPT ![t] = IF taken = {u} THEN "leave" ELSE "release"]
    BY <1>8 DEF ReleaseThreadLock
  <2>1. pc[t] = "release" /\ UNCHANGED <<start_fini_lock, pin_threadid_set>>
    BY <1>8 DEF ReleaseThreadLock, globals
  <2>2. start_fini_lock = t /\ \A v \in Threads \ {t} : pc[v] \notin HasStartFini
    BY <2>1
  <2> QED BY <2>1, <2>2
<1>9. ASSUME NEW t \in Threads, StartThread(t) \/ FinishThread(t) \/ LeaveSync(t)
      PROVE  LockInv'
  <2>1. pc[t] = "leave" /\ UNCHANGED <<thread_lock, taken>>
        /\ \E v \in {"app", "finished"} : pc' = [pc EXCEPT ![t] = v]
    BY <1>9 DEF StartThread, FinishThread, LeaveSync
  <2>2. start_fini_lock = t /\ taken = {}
    BY <2>1
  <2>3. \A v \in Threads : pc'[v] \notin {"body", "flush_all"}
    BY <2>1, <2>2
  <2> QED BY <2>1, <2>2, <2>3
<1> QED
  BY StepKinds, <1>1, <1>2, <1>3, <1>4, <1>5, <1>6, <1>7, <1>8, <1>9 DEF Inside

\* Thread locks are exclusive for the whole of a synchronisation, as long as
\* no thread is made to flush others outside one.
THEOREM LocksAreHeld == Spec /\ []NeverPaused => []ThreadLockDiscipline
<1>1. SyncOwner /\ LockInv => ThreadLockDiscipline
  BY DEF SyncOwner, LockInv, ThreadLockDiscipline, HasStartFini, SyncPlaces, Nobody
<1> QED BY <1>1, TypeInit, TypeStep, SyncOwnerInit, SyncOwnerStep, LockInvInit, LockInvStep,
           PTL DEF Spec

(***************************************************************************)
(* Clocks: what a synchronisation read from the other threads stays valid  *)
(* while it uses it, and no thread's clock is ever set back.               *)
(***************************************************************************)
\* The known threads are those between their start and their finish.
Known ==
  \A t \in Threads :
    t \in pin_threadid_set <=>
      ~ \/ pc[t] \in {"unstarted", "created", "finished"}
        \/ pc[t] \in SyncPlaces /\ op[t] = "start"

\* A thread that has not written its register line has not moved its clock.
Fresh ==
  \A t \in Threads :
    \/ pc[t] \in {"unstarted", "created"}
    \/ pc[t] \in {"take", "body"} /\ op[t] = "start"
    => lamport_timestamp[t] = 0

\* The time of a synchronisation against the clocks of the threads it holds
\* and of those it has let go.
SyncTimes ==
  \A t \in Threads :
    /\ pc[t] \in {"take", "body", "flush_all", "release"} =>
         \A u \in taken : lamport_timestamp[u] <= time[t]
    /\ pc[t] = "release" =>
         \A u \in pin_threadid_set \ taken : lamport_timestamp[u] >= time[t]

ClockInv == Known /\ Fresh /\ SyncTimes

\* Places of a started thread outside the section of the start/finish lock.
Running == Places \ (HasStartFini \cup {"unstarted", "created", "finished"})

\* A step of one running thread: its clock moves forward, and only while
\* nobody else has its thread lock.
LocalStep(t) ==
  /\ UNCHANGED <<mutexes, pin_threadid_set>>
  /\ pc[t] \in Running
  /\ \E v \in Running : pc' = [pc EXCEPT ![t] = v]
  /\ \E v \in Ops : op' = [op EXCEPT ![t] = v]
  /\ \E v \in Nat : time' = [time EXCEPT ![t] = v]
  /\ \/ UNCHANGED lamport_timestamp
     \/ /\ t \notin thread_lock
        /\ \E v \in Nat :
             v > lamport_timestamp[t] /\ lamport_timestamp' = [lamport_timestamp EXCEPT ![t] = v]

LEMMA LocalSteps ==
  ASSUME TypeInv, [Next]_vars
  PROVE  \/ UNCHANGED vars
         \/ \E t, u \in Threads : Create(t, u)
         \/ \E t \in Threads : LocalStep(t)
         \/ \E t \in Threads : Inside(t)
<1> USE DEF mutexes, globals, HasStartFini, SyncPlaces, Places, Running, Ops, SyncOps
<1> /\ pc \in [Threads -> Places] /\ op \in [Threads -> Ops] /\ time \in [Threads -> Nat]
    /\ lamport_timestamp \in [Threads -> Nat]
  BY DEF TypeInv, TypeOK
<1>1. ASSUME NEW t \in Threads, NEW kind \in {"access", "cas"}, NEW F \in Footprints,
             MemoryAccessHeader(t, kind, F)
      PROVE  LocalStep(t)
  BY <1>1 DEF MemoryAccessHeader, Does, Idle, buffers, LocalStep
<1>2. ASSUME NEW t \in Threads, NEW kind \in {"function", "ctxt"}, NEW line \in Lines,
             line.time > lamport_timestamp[t], pc[t] \in {"app", "ctxt"},
             TraceLocally(t, kind, line)
      PROVE  LocalStep(t)
  <2>1. line.time \in Nat
    BY DEF Lines
  <2>2. \E v \in {"paused", "app"} : pc' = [pc EXCEPT ![t] = v]
    BY <1>2 DEF TraceLocally
  <2>3. t \notin thread_lock /\ lamport_timestamp' = [lamport_timestamp EXCEPT ![t] = line.time]
    BY <1>2 DEF TraceLocally, TouchBuffer, OwnLockFree
  <2> QED BY <1>2, <2>1, <2>2, <2>3 DEF TraceLocally, LocalStep
<1>3. ASSUME NEW t \in Threads, FunctionRegistered(t) PROVE LocalStep(t)
  <2>1. Line(lamport_timestamp[t] + 1, user_threadid[t], "f").time > lamport_timestamp[t]
    BY DEF Line
  <2> QED BY <1>2, <1>3, <2>1, LineTypes DEF FunctionRegistered, Does, Idle, TypeInv
<1>4. ASSUME NEW t \in Threads, ContextChange(t) PROVE LocalStep(t)
  <2>1. Line(lamport_timestamp[t] + 1, user_threadid[t], "ctxt_change").time
          > lamport_timestamp[t]
    BY DEF Line
  <2> QED BY <1>2, <1>4, <2>1, LineTypes DEF ContextChange, Does, Idle, TypeInv
<1>a. ASSUME NEW t \in Threads, UNCHANGED op PROVE \E v \in Ops : op' = [op EXCEPT ![t] = v]
  <2>1. op[t] \in Ops /\ op' = [op EXCEPT ![t] = op[t]]
    BY <1>a
  <2> HIDE DEF Ops
  <2> QED BY <2>1
<1>b. ASSUME NEW t \in Threads, UNCHANGED time PROVE \E v \in Nat : time' = [time EXCEPT ![t] = v]
  <2>1. time[t] \in Nat /\ time' = [time EXCEPT ![t] = time[t]]
    BY <1>b
  <2> QED BY <2>1
<1>5. ASSUME NEW t \in Threads, Fault(t) \/ Execute(t) \/ ExecuteCAS(t) PROVE LocalStep(t)
  <2>1. pc[t] \in {"execute", "cas"} /\ UNCHANGED <<op, time, lamport_timestamp>>
        /\ \E v \in {"ctxt", "app", "cas_footer"} : pc' = [pc EXCEPT ![t] = v]
    BY <1>5 DEF Fault, Execute, ExecuteCAS, buffers
  <2>2. UNCHANGED <<mutexes, pin_threadid_set>>
    BY <1>5 DEF Fault, Execute, ExecuteCAS
  <2>3. pc[t] \in Running /\ \E v \in Running : pc' = [pc EXCEPT ![t] = v]
    BY <2>1
  <2> QED BY <1>a, <1>b, <2>1, <2>2, <2>3 DEF LocalStep
<1>6. ASSUME NEW t \in Threads, ReleaseAddressLock(t) PROVE LocalStep(t)
  <2>1. pc[t] \in {"app", "ctxt"} /\ UNCHANGED <<control, buffers, mutexes, globals>>
    BY <1>6 DEF ReleaseAddressLock
  <2> QED BY <2>1 DEF control, buffers, LocalStep
<1>7. ASSUME NEW t \in Threads, AcquireAddressLock(t) PROVE LocalStep(t)
  <2>1. /\ \E v \in {"acquire", "cas", "footer"} : pc' = [pc EXCEPT ![t] = v]
        /\ \E l \in Awaited(t) : time' = [time EXCEPT ![t] = Later(@, address_timestamp[l])]
    BY <1>7 DEF AcquireAddressLock
  <2>2. \E v \in Nat : time' = [time EXCEPT ![t] = v]
    BY <2>1 DEF Later, Awaited, TypeInv, TypeOK
  <2>3. UNCHANGED <<op, lamport_timestamp, mutexes, pin_threadid_set>>
    BY <1>7 DEF AcquireAddressLock, buffers
  <2>4. pc[t] \in Running /\ \E v \in Running : pc' = [pc EXCEPT ![t] = v]
    BY <1>7, <2>1 DEF AcquireAddressLock
  <2> QED BY <1>a, <2>2, <2>3, <2>4 DEF LocalStep
<1>8. ASSUME NEW t \in Threads, Footer(t) \/ CASFooter(t) PROVE LocalStep(t)
  <2>1. /\ \E v \in {"paused", "execute", "app"} : pc' = [pc EXCEPT ![t] = v]
        /\ pc[t] \in {"footer", "cas_footer"} /\ t \notin thread_lock
        /\ time' = [time EXCEPT ![t] = AccessTime(t)]
        /\ lamport_timestamp' = [lamport_timestamp EXCEPT ![t] = AccessTime(t)]
        /\ UNCHANGED <<op, mutexes, pin_threadid_set>>
    BY <1>8 DEF Footer, CASFooter, AfterTouch, Resume, TouchBuffer, Line, OwnLockFree
  <2>2. AccessTime(t) \in Nat /\ AccessTime(t) > lamport_timestamp[t]
    <3>1. time[t] \in Nat /\ lamport_timestamp[t] \in Nat
      OBVIOUS
    <3> QED BY ONLY <3>1 DEF AccessTime, Later
  <2>3. pc[t] \in Running /\ \E v \in Running : pc' = [pc EXCEPT ![t] = v]
    BY <2>1
  <2>4. \E v \in Ops : op' = [op EXCEPT ![t] = v]
    BY <1>a, <2>1
  <2> HIDE DEF Running
  <2> QED BY <2>1, <2>2, <2>3, <2>4 DEF LocalStep
<1> QED
  BY <1>1, <1>3, <1>4, <1>5, <1>6, <1>7, <1>8 DEF Next, Choice, Continue, Inside, Terminated

LEMMA ClockInvInit == Init => ClockInv
<1> SUFFICES ASSUME Init PROVE ClockInv
  OBVIOUS
<1>1. \A t \in Threads : pc[t] \in {"created", "unstarted"} /\ lamport_timestamp[t] = 0
  BY DEF Init
<1>2. pin_threadid_set = {}
  BY DEF Init
<1> QED BY <1>1, <1>2 DEF ClockInv, Known, Fresh, SyncTimes

LEMMA ClockInvLocal ==
  ASSUME TypeInv, SyncOwner, LockInv, ClockInv, NEW t \in Threads, LocalStep(t)
  PROVE  ClockInv'
<1> /\ pc \in [Threads -> Places] /\ op \in [Threads -> Ops] /\ time \in [Threads -> Nat]
    /\ lamport_timestamp \in [Threads -> Nat] /\ taken \subseteq Threads
    /\ pin_threadid_set \subseteq Threads
  BY DEF TypeInv, TypeOK
<1>1. PICK v \in Running : pc' = [pc EXCEPT ![t] = v]
  BY DEF LocalStep
<1>2. UNCHANGED <<taken, thread_lock, pin_threadid_set>> /\ pc[t] \in Running
  BY DEF LocalStep, mutexes
<1>3. \A u \in Threads \ {t} : op'[u] = op[u] /\ time'[u] = time[u]
  BY DEF LocalStep
<1>4. /\ \A u \in Threads : lamport_timestamp'[u] >= lamport_timestamp[u]
      /\ \A u \in Threads \ {t} : lamport_timestamp'[u] = lamport_timestamp[u]
      /\ \A u \in taken : lamport_timestamp'[u] = lamport_timestamp[u]
      /\ \A u \in Threads : lamport_timestamp'[u] \in Nat
  <2>1. CASE UNCHANGED lamport_timestamp
    BY <2>1
  <2>2. ASSUME NEW x \in Nat, x > lamport_timestamp[t], t \notin thread_lock,
               lamport_timestamp' = [lamport_timestamp EXCEPT ![t] = x]
        PROVE  <1>4
    BY <2>2 DEF LockInv
  <2> QED BY <2>1, <2>2 DEF LocalStep
<1>5. Known'
  BY <1>1, <1>2, <1>3 DEF ClockInv, Known, Running, HasStartFini, SyncPlaces
<1>6. Fresh'
  BY <1>1, <1>2, <1>3, <1>4 DEF ClockInv, Fresh, Running, HasStartFini, SyncPlaces
<1>7. SyncTimes'
  <2> SUFFICES ASSUME NEW s \in Threads
               PROVE  /\ pc'[s] \in {"take", "body", "flush_all", "release"} =>
                           \A u \in taken' : lamport_timestamp'[u] <= time'[s]
                      /\ pc'[s] = "release" =>
                           \A u \in pin_threadid_set' \ taken' :
                             lamport_timestamp'[u] >= time'[s]
    BY DEF SyncTimes
  <2>1. CASE s = t
    BY <1>1, <2>1 DEF Running, HasStartFini, SyncPlaces
  <2>2. CASE s # t
    <3>1. pc'[s] = pc[s] /\ time'[s] = time[s] /\ time[s] \in Nat
      BY <1>1, <1>3, <2>2
    <3> QED BY <1>2, <1>4, <3>1 DEF ClockInv, SyncTimes
  <2> QED BY <2>1, <2>2
<1> QED BY <1>5, <1>6, <1>7 DEF ClockInv

\* No thread's clock goes back in this step.
Advance == \A t \in Threads : lamport_timestamp'[t] >= lamport_timestamp[t]

\* The steps of a synchronisation: each keeps the order of its time and the
\* clocks, which is why the clocks it sets move forward.
LEMMA ClockInvInside ==
  ASSUME TypeInv, SyncOwner, LockInv, ClockInv, NEW t \in Threads, Inside(t)
  PROVE  ClockInv' /\ Advance
<1> /\ pc \in [Threads -> Places] /\ op \in [Threads -> Ops] /\ time \in [Threads -> Nat]
    /\ lamport_timestamp \in [Threads -> Nat] /\ taken \subseteq Threads
    /\ pin_threadid_set \subseteq Threads
  BY DEF TypeInv, TypeOK
<1> USE DEF HasStartFini, SyncPlaces
<1>a. pc[t] \in HasStartFini => \A u \in Threads \ {t} : pc[u] \notin HasStartFini
  BY DEF SyncOwner
<1>b. UNCHANGED lamport_timestamp => Advance
  BY DEF Advance
<1>1. ASSUME NEW kind \in SyncOps, EnterSync(t, kind) PROVE ClockInv' /\ Advance
  <2>1. /\ start_fini_lock = Nobody /\ \A u \in Threads : pc[u] \notin HasStartFini
        /\ UNCHANGED <<lamport_timestamp, taken, pin_threadid_set>>
        /\ op' = [op EXCEPT ![t] = kind]
        /\ \E v \in {"leave", "body", "take"} : pc' = [pc EXCEPT ![t] = v]
        /\ IF kind = "start" THEN pc[t] = "created" ELSE pc[t] = "app"
    <3>1. start_fini_lock = Nobody /\ UNCHANGED <<lamport_timestamp, taken, pin_threadid_set>>
          /\ op' = [op EXCEPT ![t] = kind]
      BY <1>1 DEF EnterSync, StartFiniFree, buffers, globals
    <3>2. \A u \in Threads : pc[u] \notin HasStartFini
      BY <3>1 DEF SyncOwner, Nobody
    <3>3. \E v \in {"leave", "body", "take"} : pc' = [pc EXCEPT ![t] = v]
      BY <1>1 DEF EnterSync
    <3>4. IF kind = "start" THEN pc[t] = "created" ELSE pc[t] = "app"
      BY <1>1 DEF EnterSync, MayEnter, Does, Idle
    <3> QED BY <3>1, <3>2, <3>3, <3>4
  <2>2. taken = {} /\ (pc'[t] = "body" => pin_threadid_set = {})
    BY <1>1, <2>1 DEF LockInv, EnterSync, Nobody
  <2>3. Known'
    BY <2>1 DEF ClockInv, Known
  <2>4. Fresh'
    BY <2>1 DEF ClockInv, Fresh
  <2>5. SyncTimes'
    BY <2>1, <2>2 DEF SyncTimes
  <2> QED BY <1>b, <2>1, <2>3, <2>4, <2>5 DEF ClockInv
<1>2. ASSUME PausedLock(t) \/ Restart(t) PROVE FALSE
  BY <1>2 DEF PausedLock, Restart, LockInv
<1>3. ASSUME NEW u \in Threads, FlushOther(t, u) PROVE ClockInv' /\ Advance
  <2>1. pc[t] = "flush_all" /\ taken = pin_threadid_set
    BY <1>3 DEF FlushOther, LockInv
  <2>2. \E v \in {"flush_all", "leave", "release"} : pc' = [pc EXCEPT ![t] = v]
    <3>1. pc'[t] \in {"flush_all", "leave", "release"}
      BY <1>3, <2>1 DEF FlushOther, AfterFlush
    <3>2. pc' = [pc EXCEPT ![t] = pc'[t]]
      BY <1>3 DEF FlushOther
    <3> QED BY <3>1, <3>2
  <2>3. UNCHANGED <<op, time, taken, pin_threadid_set>>
    BY <1>3 DEF FlushOther, globals
  <2>4. \/ UNCHANGED lamport_timestamp
        \/ /\ u \in pin_threadid_set /\ time[t] >= lamport_timestamp[u]
           /\ lamport_timestamp' = [lamport_timestamp EXCEPT ![u] = time[t]]
    <3>1. Lags(time[t], lamport_timestamp[u]) => time[t] >= lamport_timestamp[u]
      BY DEF Lags
    <3> QED BY <1>3, <3>1 DEF FlushOther
  <2>5. Advance
    BY <2>4 DEF Advance
  <2>6. Known'
    BY <2>1, <2>2, <2>3 DEF ClockInv, Known
  <2>7. Fresh'
    BY <1>a, <2>1, <2>2, <2>3, <2>4 DEF ClockInv, Fresh, Known
  <2>8. SyncTimes'
    BY <1>a, <2>1, <2>2, <2>3, <2>4 DEF ClockInv, SyncTimes
  <2> QED BY <2>5, <2>6, <2>7, <2>8 DEF ClockInv
<1>4. ASSUME TakeThreadLock(t) PROVE ClockInv' /\ Advance
  <2> PICK u \in pin_threadid_set \ taken :
         /\ taken' = taken \cup {u}
         /\ time' = [time EXCEPT ![t] = Later(@, lamport_timestamp[u])]
         /\ pc' = [pc EXCEPT ![t] = IF pin_threadid_set \ taken = {u} THEN "body" ELSE "take"]
    BY <1>4 DEF TakeThreadLock
  <2>1. pc[t] = "take" /\ UNCHANGED <<op, lamport_timestamp, pin_threadid_set>>
        /\ pc'[t] \in {"body", "take"}
    BY <1>4 DEF TakeThreadLock, buffers, globals
  <2>2. time'[t] >= time[t] /\ time'[t] >= lamport_timestamp[u]
        /\ \A s \in Threads \ {t} : time'[s] = time[s] /\ pc'[s] = pc[s]
    BY DEF Later
  <2>3. Known'
    BY <2>1, <2>2 DEF ClockInv, Known
  <2>4. Fresh'
    BY <2>1, <2>2 DEF ClockInv, Fresh
  <2>5. SyncTimes'
    <3>1. \A x \in taken' : lamport_timestamp'[x] <= time'[t]
      BY <2>1, <2>2 DEF ClockInv, SyncTimes, Later
    <3> QED BY <1>a, <2>1, <2>2, <3>1 DEF SyncTimes
  <2> QED BY <1>b, <2>1, <2>3, <2>4, <2>5 DEF ClockInv
<1>5. ASSUME SyncBody(t) PROVE ClockInv' /\ Advance
  <2>1. /\ pc[t] = "body" /\ taken = pin_threadid_set
        /\ UNCHANGED <<op, taken, pin_threadid_set>>
        /\ time' = [time EXCEPT ![t] = time[t] + 1]
        /\ lamport_timestamp' = [lamport_timestamp EXCEPT ![t] = time[t] + 1]
        /\ \E v \in {"flush_all", "leave", "release"} : pc' = [pc EXCEPT ![t] = v]
    BY <1>5 DEF SyncBody, SyncTime, SyncLine, Line, TouchBuffer, AfterFlush, LockInv, mutexes
  <2>2. lamport_timestamp[t] <= time[t]
    BY <2>1 DEF ClockInv, Known, Fresh, SyncTimes
  <2>3. Advance
    BY <2>1, <2>2 DEF Advance
  <2>4. Known'
    BY <2>1 DEF ClockInv, Known
  <2>5. Fresh'
    BY <1>a, <2>1 DEF ClockInv, Fresh
  <2>6. SyncTimes'
    <3>1. \A x \in taken' : lamport_timestamp'[x] <= time'[t]
      BY <2>1 DEF ClockInv, SyncTimes
    <3> QED BY <1>a, <2>1, <3>1 DEF SyncTimes
  <2> QED BY <2>3, <2>4, <2>5, <2>6 DEF ClockInv
<1>6. ASSUME ReleaseThreadLock(t) PROVE ClockInv' /\ Advance
  <2> PICK u \in taken :
         /\ lamport_timestamp' = [lamport_timestamp EXCEPT ![u] = ReleasedClock(t, u)]
         /\ taken' = taken \ {u}
         /\ pc' = [pc EXCEPT ![t] = IF taken = {u} THEN "leave" ELSE "release"]
    BY <1>6 DEF ReleaseThreadLock
  <2>1. pc[t] = "release" /\ UNCHANGED <<op, time, pin_threadid_set>>
        /\ pc'[t] \in {"leave", "release"} /\ u \in pin_threadid_set
    BY <1>6 DEF ReleaseThreadLock, globals, LockInv
  <2>2. /\ lamport_timestamp'[u] = time[t] /\ lamport_timestamp[u] <= time[t]
        /\ \A s \in Threads \ {u} : lamport_timestamp'[s] = lamport_timestamp[s]
        /\ \A s \in Threads \ {t} : pc'[s] = pc[s]
    BY <2>1 DEF ClockInv, SyncTimes, ReleasedClock
  <2>3. Advance
    BY <2>2 DEF Advance
  <2>4. Known'
    BY <2>1, <2>2 DEF ClockInv, Known
  <2>5. Fresh'
    BY <1>a, <2>1, <2>2 DEF ClockInv, Fresh, Known
  <2>6. SyncTimes'
    <3>1. /\ \A x \in taken' : lamport_timestamp'[x] <= time'[t]
          /\ \A x \in pin_threadid_set' \ taken' : lamport_timestamp'[x] >= time'[t]
      BY <2>1, <2>2 DEF ClockInv, SyncTimes
    <3> QED BY <1>a, <2>1, <2>2, <3>1 DEF SyncTimes
  <2> QED BY <2>3, <2>4, <2>5, <2>6 DEF ClockInv
<1>7. ASSUME StartThread(t) \/ FinishThread(t) \/ LeaveSync(t) PROVE ClockInv' /\ Advance
  <2>1. /\ pc[t] = "leave" /\ UNCHANGED <<op, time, taken, lamport_timestamp>>
        /\ \/ /\ op[t] = "start" /\ pin_threadid_set' = pin_threadid_set \cup {t}
              /\ pc' = [pc EXCEPT ![t] = "app"]
           \/ /\ op[t] = "fini" /\ pin_threadid_set' = pin_threadid_set \ {t}
              /\ pc' = [pc EXCEPT ![t] = "finished"]
           \/ /\ op[t] # "start" /\ pin_threadid_set' = pin_threadid_set
              /\ pc' = [pc EXCEPT ![t] = "app"]
    BY <1>7 DEF StartThread, FinishThread, LeaveSync, buffers, globals
  <2>2. Known'
    BY <2>1 DEF ClockInv, Known
  <2>3. Fresh'
    BY <2>1 DEF ClockInv, Fresh
  <2>4. SyncTimes'
    BY <1>a, <2>1 DEF SyncTimes
  <2> QED BY <1>b, <2>1, <2>2, <2>3, <2>4 DEF ClockInv
<1> QED BY <1>1, <1>2, <1>3, <1>4, <1>5, <1>6, <1>7 DEF Inside

LEMMA ClockStep ==
  TypeInv /\ SyncOwner /\ LockInv /\ ClockInv /\ [Next]_vars => ClockInv' /\ Advance
<1> SUFFICES ASSUME TypeInv, SyncOwner, LockInv, ClockInv, [Next]_vars
             PROVE  ClockInv' /\ Advance
  OBVIOUS
<1> lamport_timestamp \in [Threads -> Nat]
  BY DEF TypeInv, TypeOK
<1>1. CASE UNCHANGED vars
  BY <1>1 DEF vars, control, buffers, mutexes, globals, ClockInv, Known, Fresh, SyncTimes, Advance
<1>2. ASSUME NEW t \in Threads, NEW u \in Threads, Create(t, u) PROVE ClockInv' /\ Advance
  <2>1. /\ pc[u] = "unstarted" /\ pc' = [pc EXCEPT ![u] = "created"]
        /\ UNCHANGED <<op, time, lamport_timestamp, taken, pin_threadid_set>>
    BY <1>2 DEF Create, buffers, mutexes, globals
  <2>2. pc \in [Threads -> Places]
    BY DEF TypeInv, TypeOK
  <2> QED BY <2>1, <2>2 DEF ClockInv, Known, Fresh, SyncTimes, Advance, SyncPlaces
<1>3. ASSUME NEW t \in Threads, LocalStep(t) PROVE Advance
  BY <1>3 DEF LocalStep, Advance
<1> QED BY LocalSteps, ClockInvLocal, ClockInvInside, <1>1, <1>2, <1>3

\* The latest time read by acquire_all_thread_locks is still the latest when
\* the routine uses it, and holds for every thread it has let go.
THEOREM LatestWhenUsed == Spec /\ []NeverPaused => []SyncTimeIsLatest
<1>1. LockInv /\ ClockInv => SyncTimeIsLatest
  BY DEF LockInv, ClockInv, SyncTimes, SyncTimeIsLatest
<1> QED BY <1>1, TypeInit, TypeStep, SyncOwnerInit, SyncOwnerStep, LockInvInit, LockInvStep,
           ClockInvInit, ClockStep, PTL DEF Spec

(***************************************************************************)
(* The order of the accesses                                               *)
(*                                                                         *)
(* The timestamps order the memory accesses the way they were performed,   *)
(* provided that no instruction faults and no thread pauses its critical   *)
(* section to flush others (TracerDoubleUnlock).                           *)
(***************************************************************************)
\* From the first address lock of an access to its entry in the trace; the
\* time of the routine covers the address locks it has.
BeforeEntry == {"acquire", "footer", "cas", "cas_footer"}

\* From the first address lock to the end of the access.
InAccess == BeforeEntry \cup {"execute"}

\* An address lock is on the list of its owner, and once acquire_address_locks
\* has returned the owner has every lock on its list.
AddressOwner ==
  \A t \in Threads, l \in Locks :
    /\ address_lock[l] = t => l \in index_lock_list[t]
    /\ pc[t] # "acquire" /\ l \in index_lock_list[t] => address_lock[l] = t

\* The clock of a lock in use is not past what its owner will set it to.
AddressClock ==
  \A t \in Threads, l \in Locks : address_lock[l] = t =>
    /\ pc[t] \in BeforeEntry => address_timestamp[l] <= time[t]
    /\ pc[t] \notin BeforeEntry => address_timestamp[l] <= lamport_timestamp[t]
    /\ pc[t] = "execute" => address_timestamp[l] < time[t]

\* The last access under a lock is covered by the lock's clock, or by the
\* clock of the thread that performed it and still has the lock.
ExecutedClock ==
  \A l \in Locks :
    \/ executed[l] <= address_timestamp[l]
    \/ \E t \in Threads : /\ address_lock[l] = t /\ pc[t] \notin InAccess
                          /\ executed[l] <= lamport_timestamp[t]

\* A thread's last access is covered by its clock, and so is the next one
\* once it has its entry.
PerformedClock ==
  \A t \in Threads :
    /\ performed[t] <= lamport_timestamp[t]
    /\ pc[t] = "execute" => performed[t] < time[t] /\ time[t] <= lamport_timestamp[t]

\* The locks of a compare-and-swap without its entry.
OpenCAS ==
  \A t \in Threads, l \in Locks :
    unlogged[l] = t <=> pc[t] = "cas_footer" /\ l \in index_lock_list[t]

\* An access needs some lock, and only a compare-and-swap is performed before
\* it is traced.
AccessOp ==
  \A t \in Threads :
    /\ pc[t] \in InAccess => index_lock_list[t] # {}
    /\ pc[t] = "acquire" => op[t] \in {"access", "cas"}
    /\ pc[t] \in {"footer", "execute"} => op[t] = "access"
    /\ pc[t] \in {"cas", "cas_footer"} => op[t] = "cas"

AccessInv ==
  /\ \A t \in Threads : pc[t] # "ctxt"
  /\ AddressOwner
  /\ AddressClock
  /\ ExecutedClock
  /\ PerformedClock
  /\ OpenCAS
  /\ AccessOp

AddressAdvance == \A l \in Locks : address_timestamp'[l] >= address_timestamp[l]

\* What a step does for the order: it keeps the invariant, takes no address
\* clock back, and is a step of AtomicOrder or changes nothing of it.
Orderly == AccessInv' /\ AddressAdvance /\ [Order!Next]_(Order!vars)

\* While no thread is paused, the locks due are those of the accesses that
\* threads are in.
DueLocks == due = [t \in Threads |-> IF pc[t] \in InAccess THEN index_lock_list[t] ELSE {}]

LEMMA DueInAccess == (LockInv => DueLocks) /\ (LockInv' => DueLocks')
<1>1. LockInv => DueLocks
  BY DEF LockInv, DueLocks, due, AccessDue, InAccess, BeforeEntry
<1>2. LockInv' => DueLocks'
  BY DEF LockInv, DueLocks, due, AccessDue, InAccess, BeforeEntry
<1> QED BY <1>1, <1>2

LEMMA AccessInvInit == Init => AccessInv /\ Order!Init
<1> SUFFICES ASSUME Init PROVE AccessInv /\ Order!Init
  OBVIOUS
<1>1. /\ \A t \in Threads : /\ pc[t] \in {"created", "unstarted"} /\ index_lock_list[t] = {}
                            /\ performed[t] = 0 /\ lamport_timestamp[t] = 0
      /\ \A l \in Locks : /\ address_lock[l] \notin Threads /\ unlogged[l] \notin Threads
                          /\ executed[l] = 0 /\ address_timestamp[l] = 0
  BY DEF Init, Nobody
<1>2. AccessInv
  <2>1. AccessOp
    BY <1>1 DEF AccessOp, InAccess, BeforeEntry
  <2> QED BY <1>1, <2>1 DEF AccessInv, AddressOwner, AddressClock, ExecutedClock,
                            PerformedClock, OpenCAS
<1>3. Order!Init
  <2>1. \A t \in Threads : ~AccessDue(t)
    BY <1>1 DEF AccessDue
  <2>2. due = [t \in Threads |-> {}]
    BY <2>1 DEF due
  <2> QED BY <2>2 DEF Init, Order!Init
<1> QED BY <1>2, <1>3

\* Steps away from accesses: they may only move clocks forward.
Quiet ==
  /\ UNCHANGED <<addresses, history>>
  /\ \A t \in Threads : pc'[t] # "ctxt" /\ lamport_timestamp'[t] \in Nat
  /\ \A t \in Threads : pc[t] \in InAccess \/ pc'[t] \in InAccess =>
                          pc'[t] = pc[t] /\ time'[t] = time[t] /\ op'[t] = op[t]

LEMMA QuietStep ==
  ASSUME TypeInv, LockInv, LockInv', AccessInv, Advance, Quiet
  PROVE  Orderly
<1> /\ time \in [Threads -> Nat] /\ lamport_timestamp \in [Threads -> Nat]
    /\ address_timestamp \in [Locks -> Nat] /\ executed \in [Locks -> Nat]
    /\ performed \in [Threads -> Nat]
  BY DEF TypeInv, TypeOK
<1> USE DEF InAccess, BeforeEntry
<1>1. UNCHANGED <<index_lock_list, address_lock, address_timestamp, executed, performed, unlogged>>
  BY DEF Quiet, addresses, history
<1>2. AddressOwner' /\ OpenCAS' /\ AccessOp'
  <2>1. AddressOwner' /\ OpenCAS'
    BY <1>1 DEF Quiet, AccessInv, AddressOwner, OpenCAS
  <2>2. AccessOp'
    BY <1>1 DEF Quiet, AccessInv, AccessOp
  <2> QED BY <2>1, <2>2
<1>a. /\ \A t \in Threads : pc[t] \in InAccess \/ pc'[t] \in InAccess =>
                               pc'[t] = pc[t] /\ time'[t] = time[t]
      /\ \A t \in Threads : /\ lamport_timestamp[t] \in Nat /\ lamport_timestamp'[t] \in Nat
                             /\ lamport_timestamp'[t] >= lamport_timestamp[t]
  BY DEF Quiet, Advance
<1>3. AddressClock'
  <2> SUFFICES ASSUME NEW t \in Threads, NEW l \in Locks, address_lock[l] = t
               PROVE  /\ pc'[t] \in BeforeEntry => address_timestamp[l] <= time'[t]
                      /\ pc'[t] \notin BeforeEntry =>
                           address_timestamp[l] <= lamport_timestamp'[t]
                      /\ pc'[t] = "execute" => address_timestamp[l] < time'[t]
    BY <1>1 DEF AddressClock
  <2>1. /\ pc[t] \in BeforeEntry => address_timestamp[l] <= time[t]
        /\ pc[t] \notin BeforeEntry => address_timestamp[l] <= lamport_timestamp[t]
        /\ pc[t] = "execute" => address_timestamp[l] < time[t]
    BY DEF AccessInv, AddressClock
  <2> QED BY <1>a, <2>1
<1>4. ExecutedClock'
  <2> SUFFICES ASSUME NEW l \in Locks, ~(executed[l] <= address_timestamp[l])
               PROVE  \E t \in Threads : /\ address_lock[l] = t /\ pc'[t] \notin InAccess
                                         /\ executed[l] <= lamport_timestamp'[t]
    BY <1>1 DEF ExecutedClock
  <2> PICK t \in Threads : /\ address_lock[l] = t /\ pc[t] \notin InAccess
                           /\ executed[l] <= lamport_timestamp[t]
    BY DEF AccessInv, ExecutedClock
  <2>1. /\ lamport_timestamp[t] \in Nat /\ lamport_timestamp'[t] \in Nat
        /\ lamport_timestamp'[t] >= lamport_timestamp[t]
        /\ pc'[t] \notin InAccess
    BY <1>a
  <2> QED BY <2>1
<1>5. PerformedClock'
  <2> SUFFICES ASSUME NEW t \in Threads
               PROVE  /\ performed[t] <= lamport_timestamp'[t]
                      /\ pc'[t] = "execute" =>
                           performed[t] < time'[t] /\ time'[t] <= lamport_timestamp'[t]
    BY <1>1 DEF PerformedClock
  <2>1. lamport_timestamp'[t] \in Nat /\ lamport_timestamp'[t] >= lamport_timestamp[t]
    BY DEF Quiet, Advance
  <2>2. pc'[t] = "execute" => pc[t] = "execute" /\ time'[t] = time[t]
    BY DEF Quiet
  <2> QED BY <2>1, <2>2 DEF AccessInv, PerformedClock
<1>6. AddressAdvance /\ UNCHANGED Order!vars
  <2>1. due' = due
    BY <1>1, DueInAccess DEF DueLocks, Quiet
  <2> QED BY <1>1, <2>1 DEF AddressAdvance, Order!vars
<1> QED BY <1>2, <1>3, <1>4, <1>5, <1>6 DEF Quiet, Orderly, AccessInv

LEMMA QuietSteps ==
  ASSUME TypeInv, TypeInv', LockInv, LockInv', AccessInv, [Next]_vars, "fault" \notin Program
  PROVE  \/ Quiet
         \/ \E t \in Threads : \/ \E kind \in {"access", "cas"}, F \in Footprints :
                                   MemoryAccessHeader(t, kind, F)
                              \/ ReleaseAddressLock(t) \/ AcquireAddressLock(t) \/ Footer(t)
                              \/ Execute(t) \/ ExecuteCAS(t) \/ CASFooter(t)
<1> pc \in [Threads -> Places] /\ time \in [Threads -> Nat] /\ op \in [Threads -> Ops]
  BY DEF TypeInv, TypeOK
<1> \A t \in Threads : lamport_timestamp'[t] \in Nat
  BY DEF TypeInv, TypeOK
<1> \A t \in Threads : pc[t] # "ctxt"
  BY DEF AccessInv
<1> USE DEF Quiet, InAccess, BeforeEntry
<1>1. CASE UNCHANGED vars
  BY <1>1 DEF vars, control
<1>2. ASSUME NEW t \in Threads, NEW u \in Threads, Create(t, u) PROVE Quiet
  BY <1>2 DEF Create
<1>3. ASSUME NEW t \in Threads, FunctionRegistered(t) \/ ContextChange(t) PROVE Quiet
  BY <1>3 DEF FunctionRegistered, ContextChange, TraceLocally, Does, Idle
<1>4. ASSUME NEW t \in Threads, Fault(t) PROVE FALSE
  BY <1>4 DEF Fault
<1>5. ASSUME NEW t \in Threads, NEW kind \in SyncOps, EnterSync(t, kind) PROVE Quiet
  BY <1>5 DEF EnterSync, MayEnter, Does, Idle
<1>6. ASSUME NEW t \in Threads, PausedLock(t) \/ Restart(t) PROVE FALSE
  BY <1>6 DEF PausedLock, Restart, LockInv
<1>7. ASSUME NEW t \in Threads, NEW u \in Threads, FlushOther(t, u) PROVE Quiet
  <2>1. pc[t] = "flush_all" /\ pc' = [pc EXCEPT ![t] = pc'[t]]
        /\ pc'[t] \in {"flush_all", "leave", "release"}
    BY <1>7 DEF FlushOther, AfterFlush, LockInv
  <2> QED BY <1>7, <2>1 DEF FlushOther
<1>8. ASSUME NEW t \in Threads, TakeThreadLock(t) PROVE Quiet
  <2>1. pc[t] = "take" /\ \E v \in {"take", "body"} : pc' = [pc EXCEPT ![t] = v]
    BY <1>8 DEF TakeThreadLock
  <2>2. \A s \in Threads \ {t} : time'[s] = time[s]
    BY <1>8 DEF TakeThreadLock
  <2> QED BY <1>8, <2>1, <2>2 DEF TakeThreadLock
<1>9. ASSUME NEW t \in Threads, SyncBody(t) PROVE Quiet
  BY <1>9 DEF SyncBody, AfterFlush
<1>10. ASSUME NEW t \in Threads, ReleaseThreadLock(t) PROVE Quiet
  <2>1. pc[t] = "release" /\ \E v \in {"leave", "release"} : pc' = [pc EXCEPT ![t] = v]
    BY <1>10 DEF ReleaseThreadLock
  <2> QED BY <1>10, <2>1 DEF ReleaseThreadLock
<1>11. ASSUME NEW t \in Threads, StartThread(t) \/ FinishThread(t) \/ LeaveSync(t) PROVE Quiet
  BY <1>11 DEF StartThread, FinishThread, LeaveSync
<1>12. CASE Terminated
  BY <1>1, <1>12 DEF Terminated
<1> QED
  BY <1>1, <1>2, <1>3, <1>4, <1>5, <1>6, <1>7, <1>8, <1>9, <1>10, <1>11, <1>12
  DEF Next, Choice, Continue

\* Before its entry or its end, an access is the only one open on its locks.
LEMMA NoOtherCAS ==
  ASSUME TypeInv, AccessInv, NEW t \in Threads, NEW l \in index_lock_list[t],
         pc[t] \notin {"acquire", "cas_footer"}
  PROVE  unlogged[l] = Nobody
<1>1. l \in Locks /\ unlogged[l] \in Threads \cup {Nobody} /\ address_lock[l] = t
  BY DEF TypeInv, TypeOK, AccessInv, AddressOwner
<1>2. ASSUME NEW u \in Threads, unlogged[l] = u PROVE FALSE
  <2>1. pc[u] = "cas_footer" /\ l \in index_lock_list[u]
    BY <1>1, <1>2 DEF AccessInv, OpenCAS
  <2>2. address_lock[l] = u
    BY <1>1, <2>1 DEF AccessInv, AddressOwner
  <2> QED BY <1>1, <2>1, <2>2
<1> QED BY <1>1, <1>2

\* A lock with its owner before the entry, or at its instruction, has a clock
\* that covers what was performed under it.
LEMMA ExecutedBefore ==
  ASSUME TypeInv, AccessInv, NEW t \in Threads, NEW l \in Locks, address_lock[l] = t,
         pc[t] \in InAccess
  PROVE  executed[l] <= address_timestamp[l]
<1>1. \A u \in Threads : address_lock[l] = u => pc[u] \in InAccess
  OBVIOUS
<1> QED BY <1>1 DEF AccessInv, ExecutedClock

LEMMA HeaderStep ==
  ASSUME TypeInv, LockInv, LockInv', AccessInv, NEW t \in Threads, NEW kind \in {"access", "cas"},
         NEW F \in Footprints, MemoryAccessHeader(t, kind, F)
  PROVE  Orderly
<1> /\ pc \in [Threads -> Places] /\ time \in [Threads -> Nat]
    /\ index_lock_list \in [Threads -> SUBSET Locks]
    /\ address_timestamp \in [Locks -> Nat]
  BY DEF TypeInv, TypeOK
<1>1. /\ pc[t] = "app" /\ index_lock_list[t] = {}
      /\ pc' = [pc EXCEPT ![t] = "acquire"] /\ time' = [time EXCEPT ![t] = 0]
      /\ index_lock_list' = [index_lock_list EXCEPT ![t] = F]
      /\ UNCHANGED <<address_lock, address_timestamp, lamport_timestamp,
                     executed, performed, unlogged>>
  BY DEF MemoryAccessHeader, Does, Idle, buffers, history
<1>2. \A l \in Locks : address_lock[l] # t /\ unlogged[l] # t
  BY <1>1 DEF AccessInv, AddressOwner, OpenCAS
<1>3. AddressOwner' /\ OpenCAS' /\ AccessOp'
  <2>1. AccessOp'
    <3>1. op' = [op EXCEPT ![t] = kind] /\ F # {} /\ op \in [Threads -> Ops]
      BY DEF MemoryAccessHeader, TypeInv, TypeOK
    <3> QED BY <1>1, <3>1 DEF AccessInv, AccessOp, InAccess, BeforeEntry
  <2> QED BY <1>1, <1>2, <2>1 DEF AccessInv, AddressOwner, OpenCAS
<1>4. AddressClock' /\ PerformedClock'
  BY <1>1, <1>2 DEF AccessInv, AddressClock, PerformedClock
<1>5. ExecutedClock'
  BY <1>1, <1>2 DEF AccessInv, ExecutedClock
<1>6. [Order!Next]_(Order!vars)
  <2>1. F # {} /\ F \in SUBSET Locks
    OBVIOUS
  <2>2. due[t] = {} /\ due' = [due EXCEPT ![t] = F]
    BY <1>1, DueInAccess DEF DueLocks, InAccess, BeforeEntry
  <2>3. Order!Begin(t, F)
    BY <1>1, <2>1, <2>2 DEF Order!Begin
  <2> QED BY <2>1, <2>3 DEF Order!Next
<1> QED BY <1>1, <1>3, <1>4, <1>5, <1>6 DEF Orderly, AccessInv, AddressAdvance

LEMMA ReleaseStep ==
  ASSUME TypeInv, LockInv, LockInv', AccessInv, NEW t \in Threads, ReleaseAddressLock(t)
  PROVE  Orderly
<1> /\ pc \in [Threads -> Places] /\ address_lock \in [Locks -> Threads \cup {Nobody}]
    /\ index_lock_list \in [Threads -> SUBSET Locks]
    /\ address_timestamp \in [Locks -> Nat] /\ executed \in [Locks -> Nat]
    /\ lamport_timestamp \in [Threads -> Nat]
  BY DEF TypeInv, TypeOK
<1> Nobody \notin Threads
  BY DEF Nobody
<1> PICK l \in index_lock_list[t] :
      /\ address_timestamp' = [address_timestamp EXCEPT ![l] = lamport_timestamp[t]]
      /\ address_lock' = [address_lock EXCEPT ![l] = Nobody]
      /\ index_lock_list' = [index_lock_list EXCEPT ![t] = @ \ {l}]
  BY DEF ReleaseAddressLock
<1>1. /\ pc[t] = "app" /\ l \in Locks
      /\ UNCHANGED <<pc, op, time, lamport_timestamp, executed, performed, unlogged>>
  BY DEF ReleaseAddressLock, AccessInv, control, buffers, history
<1>2. address_lock[l] = t /\ address_timestamp[l] <= lamport_timestamp[t]
  BY <1>1 DEF AccessInv, AddressOwner, AddressClock, BeforeEntry
<1>3. executed[l] <= lamport_timestamp[t]
  BY <1>1, <1>2 DEF AccessInv, ExecutedClock
<1>4. AddressOwner' /\ OpenCAS' /\ AccessOp'
  BY <1>1, <1>2 DEF AccessInv, AddressOwner, OpenCAS, AccessOp, InAccess, BeforeEntry
<1>5. AddressClock' /\ PerformedClock'
  BY <1>1 DEF AccessInv, AddressClock, PerformedClock
<1>6. ExecutedClock'
  BY <1>1, <1>2, <1>3 DEF AccessInv, ExecutedClock
<1>7. AddressAdvance
  BY <1>1, <1>2 DEF AddressAdvance
<1>8. due' = due
  BY <1>1, DueInAccess DEF DueLocks, InAccess, BeforeEntry
<1> QED BY <1>1, <1>4, <1>5, <1>6, <1>7, <1>8 DEF Orderly, AccessInv, Order!vars

LEMMA AcquireStep ==
  ASSUME TypeInv, LockInv, LockInv', AccessInv, NEW t \in Threads, AcquireAddressLock(t)
  PROVE  Orderly
<1> /\ pc \in [Threads -> Places] /\ address_lock \in [Locks -> Threads \cup {Nobody}]
    /\ index_lock_list \in [Threads -> SUBSET Locks] /\ time \in [Threads -> Nat]
    /\ address_timestamp \in [Locks -> Nat] /\ executed \in [Locks -> Nat]
    /\ lamport_timestamp \in [Threads -> Nat]
  BY DEF TypeInv, TypeOK
<1> Nobody \notin Threads
  BY DEF Nobody
<1> PICK l \in Awaited(t) :
      /\ address_lock[l] = Nobody
      /\ address_lock' = [address_lock EXCEPT ![l] = t]
      /\ time' = [time EXCEPT ![t] = Later(@, address_timestamp[l])]
      /\ pc' = [pc EXCEPT ![t] = IF Awaited(t) # {l} THEN "acquire"
                                 ELSE IF op[t] = "cas" THEN "cas" ELSE "footer"]
  BY DEF AcquireAddressLock
<1>1. /\ pc[t] = "acquire" /\ l \in Locks /\ l \in index_lock_list[t]
      /\ UNCHANGED <<op, index_lock_list, address_timestamp, lamport_timestamp,
                     executed, performed, unlogged>>
  BY DEF AcquireAddressLock, Awaited, buffers, history
<1>2. /\ pc'[t] \in {"acquire", "cas", "footer"}
      /\ pc'[t] = "cas" => op[t] = "cas"
      /\ pc'[t] = "footer" => op[t] # "cas"
      /\ \A u \in Threads \ {t} : pc'[u] = pc[u] /\ time'[u] = time[u]
      /\ time'[t] \in Nat /\ time'[t] >= time[t] /\ time'[t] >= address_timestamp[l]
  <2>1. /\ pc'[t] \in {"acquire", "cas", "footer"}
        /\ (pc'[t] = "cas" => op[t] = "cas") /\ (pc'[t] = "footer" => op[t] # "cas")
    OBVIOUS
  <2>2. \A u \in Threads \ {t} : pc'[u] = pc[u] /\ time'[u] = time[u]
    OBVIOUS
  <2>3. address_timestamp[l] \in Nat /\ time'[t] = Later(time[t], address_timestamp[l])
    BY <1>1
  <2> QED BY <2>1, <2>2, <2>3 DEF Later
<1>3. AddressOwner'
  <2>1. pc'[t] # "acquire" => \A m \in index_lock_list[t] : address_lock'[m] = t
    BY <1>1 DEF Awaited
  <2>2. \A m \in Locks : address_lock'[m] = t => m \in index_lock_list[t]
    BY <1>1 DEF AccessInv, AddressOwner
  <2>3. \A u \in Threads \ {t}, m \in Locks : address_lock'[m] = u <=> address_lock[m] = u
    BY <1>1
  <2> QED BY <1>1, <1>2, <2>1, <2>2, <2>3 DEF AccessInv, AddressOwner
<1>4. AddressClock'
  <2>1. \A m \in Locks : address_lock'[m] = t => address_timestamp[m] <= time'[t]
    <3>1. \A m \in Locks : address_lock[m] = t => address_timestamp[m] <= time[t]
      BY <1>1 DEF AccessInv, AddressClock, BeforeEntry
    <3>2. \A m \in Locks : address_lock'[m] = t => m = l \/ address_lock[m] = t
      OBVIOUS
    <3> QED BY <1>1, <1>2, <3>1, <3>2
  <2>2. \A u \in Threads \ {t}, m \in Locks : address_lock'[m] = u => address_lock[m] = u
    BY <1>1
  <2> QED BY <1>1, <1>2, <2>1, <2>2 DEF AccessInv, AddressClock, BeforeEntry
<1>5. ExecutedClock'
  <2>1. executed[l] <= address_timestamp[l]
    BY <1>1 DEF AccessInv, ExecutedClock
  <2> QED BY <1>1, <1>2, <2>1 DEF AccessInv, ExecutedClock, InAccess, BeforeEntry
<1>6. PerformedClock' /\ OpenCAS' /\ AccessOp'
  <2>1. PerformedClock' /\ OpenCAS'
    BY <1>1, <1>2 DEF AccessInv, PerformedClock, OpenCAS
  <2>2. AccessOp'
    BY <1>1, <1>2 DEF AccessInv, AccessOp, InAccess, BeforeEntry
  <2> QED BY <2>1, <2>2
<1>7. \A u \in Threads : pc'[u] # "ctxt"
  BY <1>2 DEF AccessInv
<1>8. AddressAdvance
  BY <1>1 DEF AddressAdvance
<1>9. due' = due
  BY <1>1, <1>2, DueInAccess DEF DueLocks, InAccess, BeforeEntry
<1> QED BY <1>1, <1>3, <1>4, <1>5, <1>6, <1>7, <1>8, <1>9 DEF Orderly, AccessInv, Order!vars

\* The time of an entry is past the thread's clock and its locks' clocks.
LEMMA EntryTime ==
  ASSUME TypeInv, AccessInv, NEW t \in Threads, pc[t] \in {"footer", "cas_footer"}
  PROVE  /\ AccessTime(t) \in Nat /\ AccessTime(t) > lamport_timestamp[t]
         /\ AccessTime(t) > performed[t]
         /\ \A l \in index_lock_list[t] :
              /\ l \in Locks /\ address_lock[l] = t
              /\ AccessTime(t) > address_timestamp[l] /\ AccessTime(t) > executed[l]
<1> /\ time \in [Threads -> Nat] /\ lamport_timestamp \in [Threads -> Nat]
    /\ index_lock_list \in [Threads -> SUBSET Locks] /\ performed \in [Threads -> Nat]
    /\ address_timestamp \in [Locks -> Nat] /\ executed \in [Locks -> Nat]
  BY DEF TypeInv, TypeOK
<1>1. /\ AccessTime(t) \in Nat /\ AccessTime(t) > lamport_timestamp[t]
      /\ AccessTime(t) > time[t]
  BY DEF AccessTime, Later
<1>2. AccessTime(t) > performed[t]
  BY <1>1 DEF AccessInv, PerformedClock
<1>3. ASSUME NEW l \in index_lock_list[t]
      PROVE  /\ l \in Locks /\ address_lock[l] = t
             /\ AccessTime(t) > address_timestamp[l] /\ AccessTime(t) > executed[l]
  <2>1. l \in Locks /\ address_lock[l] = t
    BY DEF AccessInv, AddressOwner
  <2>2. address_timestamp[l] <= time[t]
    BY <2>1 DEF AccessInv, AddressClock, BeforeEntry
  <2>3. executed[l] <= address_timestamp[l]
    BY <2>1, ExecutedBefore DEF InAccess, BeforeEntry
  <2> QED BY <1>1, <2>1, <2>2, <2>3
<1> QED BY <1>1, <1>2, <1>3

LEMMA FooterStep ==
  ASSUME TypeInv, LockInv, LockInv', AccessInv, NEW t \in Threads, Footer(t)
  PROVE  Orderly
<1> /\ pc \in [Threads -> Places] /\ index_lock_list \in [Threads -> SUBSET Locks]
    /\ time \in [Threads -> Nat] /\ lamport_timestamp \in [Threads -> Nat]
    /\ address_timestamp \in [Locks -> Nat] /\ executed \in [Locks -> Nat]
    /\ performed \in [Threads -> Nat]
  BY DEF TypeInv, TypeOK
<1> DEFINE now == AccessTime(t)
<1>1. /\ pc[t] = "footer"
      /\ time' = [time EXCEPT ![t] = now]
      /\ lamport_timestamp' = [lamport_timestamp EXCEPT ![t] = now]
      /\ UNCHANGED <<op, index_lock_list, address_lock, address_timestamp,
                     executed, performed, unlogged>>
  BY DEF Footer, TouchBuffer, Line, addresses, history
<1>2. pc'[t] = "execute" /\ \A u \in Threads \ {t} : pc'[u] = pc[u]
  <2>1. op[t] = "access"
    BY <1>1 DEF AccessInv, AccessOp
  <2>2. pc' = [pc EXCEPT ![t] = AfterTouch(t)] /\ AfterTouch(t) \in {"paused", "execute"}
    BY <2>1 DEF Footer, AfterTouch, Resume
  <2> QED BY <2>2 DEF LockInv
<1>3. /\ now \in Nat /\ now > lamport_timestamp[t] /\ now > performed[t]
      /\ \A l \in index_lock_list[t] : l \in Locks /\ now > address_timestamp[l]
  BY <1>1, EntryTime
<1> HIDE DEF now
<1>4. /\ lamport_timestamp'[t] = now /\ time'[t] = now
      /\ \A u \in Threads \ {t} : /\ time'[u] = time[u]
                                  /\ lamport_timestamp'[u] = lamport_timestamp[u]
  BY <1>1
<1>5. AddressOwner' /\ OpenCAS' /\ AccessOp'
  BY <1>1, <1>2 DEF AccessInv, AddressOwner, OpenCAS, AccessOp, InAccess, BeforeEntry
<1>6. AddressClock'
  <2>1. \A l \in Locks : address_lock[l] = t => address_timestamp[l] < now
    BY <1>3 DEF AccessInv, AddressOwner
  <2>2. \A u \in Threads \ {t}, l \in Locks : address_lock[l] = u =>
          /\ pc[u] \in BeforeEntry => address_timestamp[l] <= time[u]
          /\ pc[u] \notin BeforeEntry => address_timestamp[l] <= lamport_timestamp[u]
          /\ pc[u] = "execute" => address_timestamp[l] < time[u]
    BY DEF AccessInv, AddressClock
  <2> SUFFICES ASSUME NEW u \in Threads, NEW l \in Locks, address_lock[l] = u
               PROVE  /\ pc'[u] \in BeforeEntry => address_timestamp[l] <= time'[u]
                      /\ pc'[u] \notin BeforeEntry =>
                           address_timestamp[l] <= lamport_timestamp'[u]
                      /\ pc'[u] = "execute" => address_timestamp[l] < time'[u]
    BY <1>1 DEF AddressClock
  <2>3. CASE u = t
    BY <1>2, <1>4, <1>3, <2>1, <2>3 DEF BeforeEntry
  <2>4. CASE u # t
    BY <1>2, <1>4, <2>2, <2>4
  <2> QED BY <2>3, <2>4
<1>7. ExecutedClock'
  BY <1>1, <1>2, <1>4 DEF AccessInv, ExecutedClock, InAccess, BeforeEntry
<1>8. PerformedClock'
  BY <1>1, <1>2, <1>3, <1>4 DEF AccessInv, PerformedClock
<1>9. \A u \in Threads : pc'[u] # "ctxt"
  BY <1>2 DEF AccessInv
<1>10. AddressAdvance
  BY <1>1 DEF AddressAdvance
<1>11. due' = due
  BY <1>1, <1>2, DueInAccess DEF DueLocks, InAccess, BeforeEntry
<1> QED BY <1>1, <1>5, <1>6, <1>7, <1>8, <1>9, <1>10, <1>11 DEF Orderly, AccessInv, Order!vars

LEMMA ExecuteStep ==
  ASSUME TypeInv, LockInv, LockInv', AccessInv, NEW t \in Threads, Execute(t)
  PROVE  Orderly
<1> /\ pc \in [Threads -> Places] /\ index_lock_list \in [Threads -> SUBSET Locks]
    /\ time \in [Threads -> Nat] /\ lamport_timestamp \in [Threads -> Nat]
    /\ address_timestamp \in [Locks -> Nat] /\ executed \in [Locks -> Nat]
    /\ performed \in [Threads -> Nat] /\ unlogged \in [Locks -> Threads \cup {Nobody}]
  BY DEF TypeInv, TypeOK
<1> DEFINE F == index_lock_list[t]
<1>1. /\ pc[t] = "execute" /\ pc' = [pc EXCEPT ![t] = "app"]
      /\ executed' = [l \in Locks |-> IF l \in F THEN time[t] ELSE executed[l]]
      /\ performed' = [performed EXCEPT ![t] = time[t]]
      /\ UNCHANGED <<op, time, lamport_timestamp, index_lock_list, address_lock,
                     address_timestamp, unlogged>>
  BY DEF Execute, buffers, addresses
<1>2. performed[t] < time[t] /\ time[t] <= lamport_timestamp[t]
  BY <1>1 DEF AccessInv, PerformedClock
<1>3. \A l \in F : /\ l \in Locks /\ address_lock[l] = t /\ unlogged[l] = Nobody
                   /\ executed[l] < time[t]
  <2> SUFFICES ASSUME NEW l \in F
               PROVE  /\ l \in Locks /\ address_lock[l] = t /\ unlogged[l] = Nobody
                      /\ executed[l] < time[t]
    OBVIOUS
  <2>1. l \in Locks /\ address_lock[l] = t
    BY <1>1 DEF AccessInv, AddressOwner
  <2>2. unlogged[l] = Nobody
    BY <1>1, NoOtherCAS
  <2>3. address_timestamp[l] < time[t]
    BY <1>1, <2>1 DEF AccessInv, AddressClock
  <2>4. executed[l] <= address_timestamp[l]
    BY <1>1, <2>1, ExecutedBefore DEF InAccess
  <2> QED BY <2>1, <2>2, <2>3, <2>4
<1>4. Order!Perform(t, performed'[t])
  <2>1. unlogged' = [l \in Locks |-> IF l \in F THEN Nobody ELSE unlogged[l]]
    BY <1>1, <1>3
  <2>2. due[t] = F /\ F # {} /\ due' = [due EXCEPT ![t] = {}]
    BY <1>1, DueInAccess DEF DueLocks, InAccess, BeforeEntry, AccessInv, AccessOp
  <2> HIDE DEF F
  <2>3. performed'[t] = time[t]
    BY <1>1
  <2> QED BY <1>1, <1>2, <1>3, <2>1, <2>2, <2>3 DEF Order!Perform
<1>5. [Order!Next]_(Order!vars)
  BY <1>4 DEF Order!Next
<1>6. AddressOwner' /\ OpenCAS' /\ AccessOp'
  BY <1>1 DEF AccessInv, AddressOwner, OpenCAS, AccessOp, InAccess, BeforeEntry
<1>7. AddressClock' /\ PerformedClock'
  BY <1>1, <1>2 DEF AccessInv, AddressClock, PerformedClock, BeforeEntry
<1>8. ExecutedClock'
  <2> SUFFICES ASSUME NEW l \in Locks
               PROVE  \/ executed'[l] <= address_timestamp'[l]
                      \/ \E u \in Threads : /\ address_lock'[l] = u /\ pc'[u] \notin InAccess
                                            /\ executed'[l] <= lamport_timestamp'[u]
    BY DEF ExecutedClock
  <2>1. CASE l \in F
    BY <1>1, <1>2, <1>3, <2>1 DEF InAccess, BeforeEntry
  <2>2. CASE l \notin F
    BY <1>1, <2>2 DEF AccessInv, ExecutedClock, InAccess, BeforeEntry
  <2> QED BY <2>1, <2>2
<1>9. \A u \in Threads : pc'[u] # "ctxt"
  BY <1>1 DEF AccessInv
<1>10. AddressAdvance
  BY <1>1 DEF AddressAdvance
<1> QED BY <1>5, <1>6, <1>7, <1>8, <1>9, <1>10 DEF Orderly, AccessInv

LEMMA ExecuteCASStep ==
  ASSUME TypeInv, LockInv, LockInv', AccessInv, NEW t \in Threads, ExecuteCAS(t)
  PROVE  Orderly
<1> /\ pc \in [Threads -> Places] /\ index_lock_list \in [Threads -> SUBSET Locks]
    /\ time \in [Threads -> Nat] /\ lamport_timestamp \in [Threads -> Nat]
    /\ address_timestamp \in [Locks -> Nat] /\ unlogged \in [Locks -> Threads \cup {Nobody}]
  BY DEF TypeInv, TypeOK
<1> DEFINE F == index_lock_list[t]
<1>1. /\ pc[t] = "cas" /\ pc' = [pc EXCEPT ![t] = "cas_footer"]
      /\ unlogged' = [l \in Locks |-> IF l \in F THEN t ELSE unlogged[l]]
      /\ UNCHANGED <<op, time, lamport_timestamp, index_lock_list, address_lock,
                     address_timestamp, executed, performed>>
  BY DEF ExecuteCAS, buffers, addresses
<1>2. \A l \in F : l \in Locks /\ unlogged[l] = Nobody
  BY <1>1, NoOtherCAS
<1>3. [Order!Next]_(Order!vars)
  <2>1. /\ due[t] = F /\ due' = due
        /\ F # {}
    <3>1. due[t] = F /\ due' = due
      BY <1>1, DueInAccess DEF DueLocks, InAccess, BeforeEntry
    <3>2. F # {}
      BY <1>1 DEF InAccess, BeforeEntry, AccessInv, AccessOp
    <3> QED BY <3>1, <3>2
  <2>2. Order!TakeEffect(t)
    BY <1>1, <1>2, <2>1 DEF Order!TakeEffect
  <2> QED BY <2>2 DEF Order!Next
<1>4. OpenCAS'
  <2> SUFFICES ASSUME NEW u \in Threads, NEW l \in Locks
               PROVE  unlogged'[l] = u <=> pc'[u] = "cas_footer" /\ l \in index_lock_list'[u]
    BY DEF OpenCAS
  <2>1. CASE u = t
    BY <1>1, <2>1 DEF AccessInv, OpenCAS
  <2>2. CASE u # t
    <3>1. l \in F => unlogged[l] # u
      BY <1>2 DEF Nobody
    <3> QED BY <1>1, <2>2, <3>1 DEF AccessInv, OpenCAS
  <2> QED BY <2>1, <2>2
<1>5. AddressOwner' /\ AddressClock'
  BY <1>1 DEF AccessInv, AddressOwner, AddressClock, BeforeEntry
<1>6. ExecutedClock' /\ PerformedClock'
  BY <1>1 DEF AccessInv, ExecutedClock, PerformedClock, InAccess, BeforeEntry
<1>7. AccessOp' /\ \A u \in Threads : pc'[u] # "ctxt"
  BY <1>1 DEF AccessInv, AccessOp, InAccess, BeforeEntry
<1>8. AddressAdvance
  BY <1>1 DEF AddressAdvance
<1> QED BY <1>3, <1>4, <1>5, <1>6, <1>7, <1>8 DEF Orderly, AccessInv

LEMMA CASFooterStep ==
  ASSUME TypeInv, LockInv, LockInv', AccessInv, NEW t \in Threads, CASFooter(t)
  PROVE  Orderly
<1> /\ pc \in [Threads -> Places] /\ index_lock_list \in [Threads -> SUBSET Locks]
    /\ time \in [Threads -> Nat] /\ lamport_timestamp \in [Threads -> Nat]
    /\ address_timestamp \in [Locks -> Nat] /\ executed \in [Locks -> Nat]
    /\ performed \in [Threads -> Nat] /\ unlogged \in [Locks -> Threads \cup {Nobody}]
  BY DEF TypeInv, TypeOK
<1> DEFINE F == index_lock_list[t]
           now == AccessTime(t)
<1>1. /\ pc[t] = "cas_footer"
      /\ time' = [time EXCEPT ![t] = now]
      /\ lamport_timestamp' = [lamport_timestamp EXCEPT ![t] = now]
      /\ executed' = [l \in Locks |-> IF l \in F THEN now ELSE executed[l]]
      /\ performed' = [performed EXCEPT ![t] = now]
      /\ unlogged' = [l \in Locks |-> IF l \in F THEN Nobody ELSE unlogged[l]]
      /\ UNCHANGED <<op, index_lock_list, address_lock, address_timestamp>>
  BY DEF CASFooter, TouchBuffer, Line, addresses
<1>2. pc'[t] = "app" /\ \A u \in Threads \ {t} : pc'[u] = pc[u]
  <2>1. op[t] = "cas"
    BY <1>1 DEF AccessInv, AccessOp
  <2>2. pc' = [pc EXCEPT ![t] = AfterTouch(t)] /\ AfterTouch(t) \in {"paused", "app"}
    BY <2>1 DEF CASFooter, AfterTouch, Resume
  <2> QED BY <2>2 DEF LockInv
<1>3. /\ now \in Nat /\ now > lamport_timestamp[t] /\ now > performed[t]
      /\ \A l \in F : /\ l \in Locks /\ address_lock[l] = t
                      /\ now > address_timestamp[l] /\ now > executed[l]
  BY <1>1, EntryTime
<1> HIDE DEF now
<1>4. /\ lamport_timestamp'[t] = now
      /\ \A u \in Threads \ {t} : /\ time'[u] = time[u] /\ performed'[u] = performed[u]
                                  /\ lamport_timestamp'[u] = lamport_timestamp[u]
      /\ performed'[t] = now
  BY <1>1
<1>5. [Order!Next]_(Order!vars)
  <2>1. \A l \in F : unlogged[l] = t
    BY <1>1, <1>3 DEF AccessInv, OpenCAS
  <2>2. due[t] = F /\ F # {} /\ due' = [due EXCEPT ![t] = {}]
    BY <1>1, <1>2, DueInAccess DEF DueLocks, InAccess, BeforeEntry, AccessInv, AccessOp
  <2> HIDE DEF F
  <2>3. Order!Perform(t, performed'[t])
    BY <1>1, <1>3, <1>4, <2>1, <2>2 DEF Order!Perform
  <2> QED BY <2>3 DEF Order!Next
<1>6. OpenCAS'
  <2> SUFFICES ASSUME NEW u \in Threads, NEW l \in Locks
               PROVE  unlogged'[l] = u <=> pc'[u] = "cas_footer" /\ l \in index_lock_list'[u]
    BY DEF OpenCAS
  <2>1. CASE u = t
    BY <1>1, <1>2, <2>1 DEF AccessInv, OpenCAS, Nobody
  <2>2. CASE u # t
    <3>1. l \in F => ~(pc[u] = "cas_footer" /\ l \in index_lock_list[u])
      BY <1>1, <2>2 DEF AccessInv, OpenCAS
    <3> QED BY <1>1, <1>2, <2>2, <3>1 DEF AccessInv, OpenCAS, Nobody
  <2> QED BY <2>1, <2>2
<1>7. AddressOwner' /\ AccessOp'
  BY <1>1, <1>2 DEF AccessInv, AddressOwner, AccessOp, InAccess, BeforeEntry
<1>8. AddressClock'
  <2>1. \A l \in Locks : address_lock[l] = t => address_timestamp[l] < now
    BY <1>3 DEF AccessInv, AddressOwner
  <2>2. \A u \in Threads \ {t}, l \in Locks : address_lock[l] = u =>
          /\ pc[u] \in BeforeEntry => address_timestamp[l] <= time[u]
          /\ pc[u] \notin BeforeEntry => address_timestamp[l] <= lamport_timestamp[u]
          /\ pc[u] = "execute" => address_timestamp[l] < time[u]
    BY DEF AccessInv, AddressClock
  <2> SUFFICES ASSUME NEW u \in Threads, NEW l \in Locks, address_lock[l] = u
               PROVE  /\ pc'[u] \in BeforeEntry => address_timestamp[l] <= time'[u]
                      /\ pc'[u] \notin BeforeEntry =>
                           address_timestamp[l] <= lamport_timestamp'[u]
                      /\ pc'[u] = "execute" => address_timestamp[l] < time'[u]
    BY <1>1 DEF AddressClock
  <2>3. CASE u = t
    BY <1>2, <1>4, <1>3, <2>1, <2>3 DEF BeforeEntry
  <2>4. CASE u # t
    BY <1>2, <1>4, <2>2, <2>4
  <2> QED BY <2>3, <2>4
<1>9. ExecutedClock'
  <2> SUFFICES ASSUME NEW l \in Locks
               PROVE  \/ executed'[l] <= address_timestamp'[l]
                      \/ \E u \in Threads : /\ address_lock'[l] = u /\ pc'[u] \notin InAccess
                                            /\ executed'[l] <= lamport_timestamp'[u]
    BY DEF ExecutedClock
  <2>1. CASE l \in F
    BY <1>1, <1>2, <1>3, <1>4, <2>1 DEF InAccess, BeforeEntry
  <2>2. CASE l \notin F
    BY <1>1, <1>2, <1>4, <2>2 DEF AccessInv, ExecutedClock, InAccess, BeforeEntry
  <2> QED BY <2>1, <2>2
<1>10. PerformedClock'
  BY <1>1, <1>2, <1>3, <1>4 DEF AccessInv, PerformedClock
<1>11. \A u \in Threads : pc'[u] # "ctxt"
  BY <1>2 DEF AccessInv
<1>12. AddressAdvance
  BY <1>1 DEF AddressAdvance
<1> QED BY <1>5, <1>6, <1>7, <1>8, <1>9, <1>10, <1>11, <1>12 DEF Orderly, AccessInv

LEMMA OrderStep ==
  /\ TypeInv /\ TypeInv' /\ SyncOwner /\ LockInv /\ LockInv' /\ ClockInv
  /\ AccessInv /\ [Next]_vars /\ "fault" \notin Program
  => Orderly /\ Advance
<1> SUFFICES ASSUME TypeInv, TypeInv', SyncOwner, LockInv, LockInv', ClockInv,
                    AccessInv, [Next]_vars, "fault" \notin Program
             PROVE  Orderly /\ Advance
  OBVIOUS
<1>1. Advance
  BY ClockStep
<1>2. CASE Quiet
  BY <1>1, <1>2, QuietStep
<1> QED BY <1>1, <1>2, QuietSteps, HeaderStep, ReleaseStep, AcquireStep, FooterStep,
           ExecuteStep, ExecuteCASStep, CASFooterStep

NoFault == "fault" \notin Program

\* No thread's clock goes back, and no address lock's, for a program whose
\* instructions do not fault.
THEOREM ClocksOnlyAdvance ==
  NoFault => (Spec /\ []NeverPaused => ClocksAdvance)
<1> SUFFICES ASSUME NoFault PROVE Spec /\ []NeverPaused => ClocksAdvance
  OBVIOUS
<1>1. TypeInv /\ TypeInv' /\ SyncOwner /\ LockInv /\ LockInv' /\ ClockInv /\ AccessInv
        /\ [Next]_vars
      => AccessInv' /\ [/\ \A t \in Threads : lamport_timestamp'[t] >= lamport_timestamp[t]
                        /\ \A l \in Locks : address_timestamp'[l] >= address_timestamp[l]]_vars
  BY OrderStep DEF NoFault, Orderly, Advance, AddressAdvance
<1> QED BY <1>1, TypeInit, TypeStep, SyncOwnerInit, SyncOwnerStep, LockInvInit, LockInvStep,
           ClockInvInit, ClockStep, AccessInvInit, PTL DEF Spec, ClocksAdvance

\* The pintool implements the order its README promises: an access is
\* performed over the locks of its footprint, with a timestamp later than those
\* of all accesses performed before it by its thread and under those locks.
THEOREM AccessesAreOrdered ==
  NoFault => (Spec /\ []NeverPaused => ImplementsAtomicOrder)
<1> SUFFICES ASSUME NoFault PROVE Spec /\ []NeverPaused => ImplementsAtomicOrder
  OBVIOUS
<1>1. TypeInv /\ TypeInv' /\ SyncOwner /\ LockInv /\ LockInv' /\ ClockInv /\ AccessInv
        /\ [Next]_vars
      => AccessInv' /\ [Order!Next]_(Order!vars)
  BY OrderStep DEF NoFault, Orderly
<1> QED BY <1>1, TypeInit, TypeStep, SyncOwnerInit, SyncOwnerStep, LockInvInit, LockInvStep,
           ClockInvInit, ClockStep, AccessInvInit, PTL DEF Spec, ImplementsAtomicOrder, Order!Spec
=============================================================================

--------------------------- MODULE TracerFileProofs ---------------------------
(***************************************************************************)
(* Theorems about the trace file: it is what the merge utility assumes of  *)
(* its input, a synchronisation separates it, and a finished thread's      *)
(* lines are all in it.                                                    *)
(***************************************************************************)
EXTENDS TracerProofs, FiniteSetTheorems, WellFoundedInduction

(***************************************************************************)
(* The operators of TraceContract                                          *)
(***************************************************************************)
\* Every set of naturals has a least element: what stands in for induction.
LEMMA LeastNumber ==
  ASSUME NEW S, S \subseteq Nat, S # {}
  PROVE  \E n \in S : \A m \in S : n <= m
<1> DEFINE R == {p \in Nat \X Nat : p[1] < p[2]}
<1>1. IsWellFoundedOn(R, Nat)
  BY NatLessThanWellFounded DEF OpToRel, IsWellFoundedOn
<1>2. PICK n \in S : \A m \in S : <<m, n>> \notin R
  <2> HIDE DEF R
  <2> QED BY <1>1, WFMin
<1>3. \A m \in S : ~(m < n)
  BY <1>2
<1> QED BY <1>3

\* A bounded set of naturals has a greatest element, and Max is it.
LEMMA MaxOfBounded ==
  ASSUME NEW S, S \subseteq Nat, S # {}, NEW b \in Nat, \A x \in S : x <= b
  PROVE  Contract!Max(S) \in S /\ \A x \in S : x <= Contract!Max(S)
<1> DEFINE bounds == {n \in Nat : \A x \in S : x <= n}
<1>1. PICK n \in bounds : \A m \in bounds : n <= m
  BY LeastNumber
<1>2. n \in S
  <2> SUFFICES ASSUME n \notin S PROVE FALSE
    OBVIOUS
  <2>1. \A x \in S : x \in Nat /\ x < n
    OBVIOUS
  <2>2. n - 1 \in bounds
    <3> PICK x \in S : TRUE
      OBVIOUS
    <3> x \in Nat /\ x < n
      BY <2>1
    <3> QED BY <2>1
  <2> QED BY <1>1, <2>2
<1>3. \E x \in S : \A y \in S : x >= y
  BY <1>2
<1> QED BY <1>3 DEF Contract!Max

LEMMA MinOfNaturals ==
  ASSUME NEW S, S \subseteq Nat, S # {}
  PROVE  Contract!Min(S) \in S
<1>1. \E x \in S : \A y \in S : x =< y
  BY LeastNumber
<1> QED BY <1>1 DEF Contract!Min

\* A file as a function on the positions of its lines.
LEMMA FileLines ==
  ASSUME NEW content \in Seq(Lines)
  PROVE  /\ Len(content) \in Nat
         /\ DOMAIN content = 1 .. Len(content)
         /\ \A i \in 1 .. Len(content) : content[i] \in Lines /\ content[i].time \in Nat
<1>1. \A i \in 1 .. Len(content) : content[i] \in Lines
  BY ElementOfSeq
<1>2. \A line \in Lines : line.time \in Nat
  BY DEF Lines
<1> QED BY <1>1, <1>2, LenProperties

\* The times in a file are bounded.
LEMMA TimesBounded ==
  ASSUME NEW content \in Seq(Lines)
  PROVE  \E b \in Nat : \A i \in DOMAIN content : content[i].time <= b
<1> DEFINE Bounded(n) == \E b \in Nat : \A i \in 1 .. n : content[i].time <= b
           bad == {n \in 0 .. Len(content) : ~Bounded(n)}
<1>1. /\ Len(content) \in Nat /\ DOMAIN content = 1 .. Len(content)
      /\ \A i \in 1 .. Len(content) : content[i].time \in Nat
  BY FileLines
<1>2. Bounded(0)
  <2>1. 0 \in Nat /\ \A i \in 1 .. 0 : content[i].time <= 0
    OBVIOUS
  <2> QED BY <2>1
<1>3. ASSUME NEW n \in 1 .. Len(content), Bounded(n - 1) PROVE Bounded(n)
  <2>1. PICK b \in Nat : \A i \in 1 .. n - 1 : content[i].time <= b
    BY <1>3
  <2>2. n \in Nat /\ content[n].time \in Nat
    BY <1>1
  <2>3. Later(b, content[n].time) \in Nat
    BY <2>2 DEF Later
  <2>4. ASSUME NEW i \in 1 .. n PROVE content[i].time <= Later(b, content[n].time)
    <3>1. content[i].time \in Nat
      BY <1>1
    <3>2. i \in 1 .. n - 1 \/ i = n
      BY <2>2
    <3>3. content[i].time <= b \/ content[i].time = content[n].time
      BY <2>1, <3>2
    <3>4. \A x, y, z \in Nat : x <= y \/ x = z => x <= Later(y, z)
      BY DEF Later
    <3> HIDE DEF Bounded
    <3> QED BY <2>2, <3>1, <3>3, <3>4
  <2> QED BY <2>3, <2>4
<1> HIDE DEF Bounded
<1>4. bad = {}
  <2> SUFFICES ASSUME bad # {} PROVE FALSE
    OBVIOUS
  <2>1. PICK n \in bad : \A m \in bad : n <= m
    <3>1. bad \subseteq Nat
      BY <1>1
    <3> HIDE DEF bad
    <3> QED BY <3>1, LeastNumber
  <2>2. n \in 0 .. Len(content) /\ ~Bounded(n) /\ n # 0
    BY <1>2, <2>1
  <2>3. n - 1 \in 0 .. Len(content) /\ ~(n <= n - 1) /\ n \in 1 .. Len(content)
    BY <1>1, <2>2
  <2>4. Bounded(n - 1)
    BY <2>1, <2>3
  <2> QED BY <1>3, <2>2, <2>3, <2>4
<1>5. Bounded(Len(content))
  BY <1>1, <1>4
<1> QED BY <1>1, <1>5 DEF Bounded

\* The latest time of a thread is the time of one of its lines, and of none
\* of them exceeded.
LEMMA LastOfIsLast ==
  ASSUME NEW content \in Seq(Lines), NEW tid
  PROVE  /\ Contract!LastOf(content, tid) \in Nat
         /\ \A i \in DOMAIN content :
              content[i].tid = tid => content[i].time <= Contract!LastOf(content, tid)
         /\ \/ Contract!LastOf(content, tid) = 0
            \/ \E i \in DOMAIN content :
                 content[i].tid = tid /\ content[i].time = Contract!LastOf(content, tid)
<1> DEFINE T == {0} \cup Contract!TimesOf(content, tid)
<1>1. \A i \in DOMAIN content : content[i].time \in Nat
  BY FileLines
<1>2. \A x : x \in T <=> x = 0 \/ \E i \in DOMAIN content : content[i].tid = tid /\ x = content[i].time
  BY DEF Contract!TimesOf
<1>3. \E b \in Nat : \A x \in T : x <= b
  <2>1. PICK b \in Nat : \A i \in DOMAIN content : content[i].time <= b
    BY TimesBounded
  <2> HIDE DEF T
  <2>2. \A x \in T : x <= b
    BY <1>2, <2>1
  <2> QED BY <2>2
<1>4. Contract!Max(T) \in T /\ \A x \in T : x <= Contract!Max(T)
  <2>1. T \subseteq Nat /\ T # {}
    BY <1>1, <1>2
  <2> HIDE DEF T
  <2> QED BY <1>3, <2>1, MaxOfBounded
<1>5. Contract!LastOf(content, tid) = Contract!Max(T)
  BY DEF Contract!LastOf
<1> HIDE DEF T
<1> QED BY <1>1, <1>2, <1>4, <1>5

\* A time later than every time in the file is later than its frontier.
LEMMA FrontierBelow ==
  ASSUME NEW content \in Seq(Lines), NEW now \in Nat, now > 0,
         \A i \in DOMAIN content : content[i].time < now
  PROVE  Contract!Frontier(content) < now
<1> DEFINE T == {0} \cup {content[i].time : i \in DOMAIN content}
           L == {Contract!LastOf(content, tid) : tid \in Contract!ActiveIn(content)}
<1>1. \A i \in DOMAIN content : content[i].time \in Nat
  BY FileLines
<1>2. Contract!Max(T) < now
  <2>1. T \subseteq Nat /\ 0 \in T /\ \A x \in T : x < now
    BY <1>1
  <2> HIDE DEF T
  <2>2. \A x \in T : x <= now
    BY <2>1
  <2>3. Contract!Max(T) \in T
    BY <2>1, <2>2, MaxOfBounded
  <2> QED BY <2>1, <2>3
<1>3. ASSUME Contract!ActiveIn(content) # {} PROVE Contract!Min(L) < now
  <2>1. \A x \in L : x \in Nat /\ x < now
    BY LastOfIsLast
  <2>2. L # {}
    BY <1>3
  <2> HIDE DEF L
  <2>3. Contract!Min(L) \in L
    BY <2>1, <2>2, MinOfNaturals
  <2> QED BY <2>1, <2>3
<1> QED BY <1>2, <1>3 DEF Contract!Frontier

\* Counting lines of which there is none, or exactly one.
LEMMA CountOfNone ==
  ASSUME NEW content \in Seq(Lines), NEW tid, NEW what,
         \A i \in DOMAIN content : ~(content[i].tid = tid /\ content[i].what = what)
  PROVE  Contract!Count(content, tid, what) = 0
<1>1. Contract!Count(content, tid, what) = Cardinality({})
  BY DEF Contract!Count, Contract!Quantify, Contract!Cardinality, Cardinality
<1> QED BY <1>1, FS_EmptySet

LEMMA CountOfOne ==
  ASSUME NEW content \in Seq(Lines), NEW tid, NEW what, NEW i \in DOMAIN content,
         content[i].tid = tid, content[i].what = what,
         \A j \in DOMAIN content : content[j].tid = tid /\ content[j].what = what => j = i
  PROVE  Contract!Count(content, tid, what) = 1
<1>1. {j \in DOMAIN content : content[j].tid = tid /\ content[j].what = what} = {i}
  OBVIOUS
<1>2. Contract!Count(content, tid, what) = Cardinality({i})
  BY <1>1 DEF Contract!Count, Contract!Quantify, Contract!Cardinality, Cardinality
<1> QED BY <1>2, FS_Singleton

LEMMA CountInNat ==
  ASSUME NEW content \in Seq(Lines), NEW tid, NEW what
  PROVE  Contract!Count(content, tid, what) \in Nat
<1> DEFINE those == {i \in DOMAIN content : content[i].tid = tid /\ content[i].what = what}
<1>1. IsFiniteSet(1 .. Len(content)) /\ those \subseteq 1 .. Len(content)
  <2>1. Len(content) \in Int /\ DOMAIN content = 1 .. Len(content)
    BY FileLines
  <2>2. \A a, b \in Int : IsFiniteSet(a .. b)
    BY FS_Interval, Zenon
  <2> QED BY <2>1, <2>2
<1>2. Cardinality(those) \in Nat
  <2> HIDE DEF those
  <2> QED BY <1>1, FS_Subset, FS_CardinalityType
<1>3. Contract!Count(content, tid, what) = Cardinality(those)
  BY DEF Contract!Count, Contract!Quantify, Contract!Cardinality, Cardinality
<1> QED BY <1>2, <1>3

\* The next line of a thread that has registered and not finished.
LEMMA OwnLineFollows ==
  ASSUME NEW content \in Seq(Lines), NEW line \in Lines, NEW r \in DOMAIN content,
         line.tid # Unregistered, line.what # "tr", line.time > 0,
         \A i \in DOMAIN content : content[i].tid = line.tid =>
           content[i].time < line.time /\ content[i].what # "tf",
         content[r].tid = line.tid, content[r].what = "tr",
         \A i \in DOMAIN content : content[i].tid = line.tid /\ content[i].what = "tr" => i = r
  PROVE  Contract!MayFollow(content, line)
<1>1. line.time \in Nat /\ \A i \in DOMAIN content : content[i].time \in Nat
  BY FileLines DEF Lines
<1>2. line.time > Contract!LastOf(content, line.tid)
  BY <1>1, LastOfIsLast
<1>3. Contract!Count(content, line.tid, "tr") = 1 /\ Contract!Count(content, line.tid, "tf") = 0
  BY CountOfNone, CountOfOne
<1>4. line.tid \in Contract!ActiveIn(content)
  BY <1>3 DEF Contract!ActiveIn
<1>5. Contract!Unregistered = Unregistered
  BY DEF Contract!Unregistered, Unregistered
<1> QED BY <1>2, <1>4, <1>5 DEF Contract!MayFollow

\* The first line of a thread, or one of an unregistered thread.
LEMMA LaterLineFollows ==
  ASSUME NEW content \in Seq(Lines), NEW line \in Lines,
         line.tid = Unregistered \/ line.what = "tr", line.time > 0,
         \A i \in DOMAIN content :
           content[i].time < line.time /\ ~(content[i].tid = line.tid /\ content[i].what = "tr")
  PROVE  Contract!MayFollow(content, line)
<1>1. line.time \in Nat /\ \A i \in DOMAIN content : content[i].time \in Nat
  BY FileLines DEF Lines
<1>2. line.time > Contract!LastOf(content, line.tid)
  BY <1>1, LastOfIsLast
<1>3. line.time > Contract!Frontier(content)
  BY <1>1, FrontierBelow
<1>4. Contract!Count(content, line.tid, "tr") = 0 /\ Contract!Count(content, line.tid, "tf") \in Nat
  BY CountOfNone, CountInNat
<1>5. line.tid \notin Contract!ActiveIn(content)
  BY <1>4 DEF Contract!ActiveIn
<1>6. Contract!Unregistered = Unregistered
  BY DEF Contract!Unregistered, Unregistered
<1> QED BY <1>2, <1>3, <1>5, <1>6 DEF Contract!MayFollow

\* The lines before a position.
LEMMA Before ==
  ASSUME NEW content \in Seq(Lines), NEW i \in DOMAIN content
  PROVE  LET before == SubSeq(content, 1, i - 1)
         IN /\ before \in Seq(Lines) /\ DOMAIN before = 1 .. i - 1
            /\ \A k \in 1 .. i - 1 : k \in DOMAIN content /\ before[k] = content[k]
<1>1. i \in Nat /\ i >= 1 /\ i <= Len(content) /\ Len(content) \in Nat /\ DOMAIN content = 1 .. Len(content)
  BY LenProperties
<1>2. \A k \in 1 .. i - 1 : k \in DOMAIN content /\ content[k] \in Lines
  BY <1>1, ElementOfSeq
<1> DEFINE before == SubSeq(content, 1, i - 1)
<1>3. /\ before \in Seq(Lines) /\ Len(before) = i - 1
      /\ \A k \in 1 .. i - 1 : before[k] = content[k]
  <2>1. /\ before \in Seq(Lines)
        /\ Len(before) = IF 1 <= i - 1 THEN i - 1 - 1 + 1 ELSE 0
        /\ \A k \in 1 .. i - 1 - 1 + 1 : before[k] = content[1 + k - 1]
    BY <1>1, <1>2, SubSeqProperties
  <2> HIDE DEF before
  <2> QED BY <1>1, <2>1
<1>4. DOMAIN before = 1 .. Len(before)
  BY <1>3, LenProperties
<1> HIDE DEF before
<1> QED BY <1>2, <1>3, <1>4 DEF before

USE ThreadsAssumption, LocksAssumption, FootprintsAssumption, KnobsAssumption,
    ProgramAssumption

(***************************************************************************)
(* The threads and their routines                                          *)
(***************************************************************************)
\* The traced program ends with its main thread, and the context changes it
\* meets are those of registered threads: the runs TracerSync and
\* TracerProgress check programs that are, and README what others do.
Cooperative == "detach" \notin Program /\ (RegisterThreads => "ctxt" \notin Program)

IsRegistered(t) == user_threadid[t] # Unregistered

Accessing == {"acquire", "footer", "execute", "cas", "cas_footer", "ctxt"}
PostBody == {"flush_all", "release"}

\* Registration: when a thread is registered, and that only registered ones
\* are traced outside a synchronisation.
Registration ==
  \A t \in Threads :
    /\ user_threadid[t] \in {t, Unregistered}
    /\ pc[t] \in {"unstarted", "created"} => ~IsRegistered(t)
    /\ pc[t] \in {"take", "body"} =>
         /\ op[t] \in {"start", "register", "unregistered_function"} => ~IsRegistered(t)
         /\ op[t] = "fini" => IsRegistered(t)
    /\ pc[t] \in PostBody /\ op[t] = "start" => IsRegistered(t)
    /\ pc[t] \in Accessing => IsRegistered(t)
    /\ \/ RegisterThreads
       \/ IsRegistered(t)
       \/ pc[t] \in {"unstarted", "created"}
       \/ pc[t] \in {"take", "body"} /\ op[t] = "start"

\* Main starts before the others and finishes after them.
MainFirst ==
  \/ pc[Main] \in {"unstarted", "created"}
  \/ pc[Main] \in SyncPlaces /\ op[Main] = "start"
  => \A t \in Threads \ {Main} : pc[t] = "unstarted"

MainLast ==
  \/ pc[Main] = "finished"
  \/ pc[Main] \in SyncPlaces /\ op[Main] = "fini"
  => \A t \in Threads \ {Main} : pc[t] \in {"unstarted", "finished"}

ControlInv == Registration /\ MainFirst /\ MainLast

\* The clock of a thread that has written its line of synchronisation, the
\* clocks of the others when a thread is about to be forgotten, and that of a
\* thread that performed an access.
SyncClock == \A t \in Threads : pc[t] \in PostBody => lamport_timestamp[t] = time[t]

FiniClock ==
  \A t \in Threads : pc[t] = "leave" /\ op[t] = "fini" /\ IsRegistered(t) =>
    \A u \in pin_threadid_set : lamport_timestamp[u] >= lamport_timestamp[t]

LastAccessClock ==
  \A t \in Threads :
    /\ performed[t] <= lamport_timestamp[t]
    /\ pc[t] = "execute" => time[t] <= lamport_timestamp[t]

TimesInv == SyncClock /\ FiniClock /\ LastAccessClock

(***************************************************************************)
(* The trace file and the buffers                                          *)
(***************************************************************************)
\* A registered thread is closed once its finish line is written.
Closed(t) ==
  \/ pc[t] = "finished"
  \/ pc[t] \in PostBody \cup {"leave"} /\ op[t] = "fini"

\* The threads whose clocks bound the times in the file.
Bounds(t) ==
  \/ t \in pin_threadid_set /\ (IsRegistered(t) \/ t = Main)
  \/ pc[t] \in PostBody
  \/ pc[t] = "leave" /\ op[t] = "start" /\ IsRegistered(t)

FileBound ==
  pc[Main] # "finished" =>
    \A i \in DOMAIN trace_file :
      \E t \in Threads : Bounds(t) /\ trace_file[i].time <= lamport_timestamp[t]

\* A buffer holds lines of its thread in the order of their times, none of
\* them a synchronisation's, and is empty once the thread is closed.
Buffered == {"m", "f", "ctxt_change"}

StreamInv ==
  \A t \in Threads :
    /\ trace_stream[t] # <<>> => IsRegistered(t) /\ ~Closed(t) /\ t \in pin_threadid_set
    /\ \A j \in DOMAIN trace_stream[t] :
         /\ trace_stream[t][j].tid = t /\ trace_stream[t][j].what \in Buffered
         /\ trace_stream[t][j].time <= lamport_timestamp[t]
         /\ \A k \in DOMAIN trace_stream[t] :
              k < j => trace_stream[t][k].time < trace_stream[t][j].time

\* What is in the file of a thread precedes what is in its buffer.
OwnLines ==
  \A t \in Threads : \A i \in DOMAIN trace_file : trace_file[i].tid = t =>
    /\ IsRegistered(t)
    /\ trace_file[i].time <= lamport_timestamp[t]
    /\ \A j \in DOMAIN trace_stream[t] : trace_file[i].time < trace_stream[t][j].time

\* The one line of a kind that a thread has in the file.
OnlyLine(i, tid, what) ==
  /\ i \in DOMAIN trace_file
  /\ trace_file[i].tid = tid /\ trace_file[i].what = what
  /\ \A j \in DOMAIN trace_file :
       trace_file[j].tid = tid /\ trace_file[j].what = what => j = i

RegisterLines ==
  /\ \A t \in Threads : IsRegistered(t) => \E i \in DOMAIN trace_file : OnlyLine(i, t, "tr")
  /\ \A i \in DOMAIN trace_file : trace_file[i].tid = Unregistered => trace_file[i].what # "tr"

FinishLines ==
  \A t \in Threads : IsRegistered(t) =>
    IF Closed(t)
    THEN \E i \in DOMAIN trace_file : OnlyLine(i, t, "tf") /\ performed[t] < trace_file[i].time
    ELSE \A i \in DOMAIN trace_file : trace_file[i].tid = t => trace_file[i].what # "tf"

\* A thread whose lock a synchronisation holds will be past the time x of its
\* line when it is let go.
Pending(t, x) ==
  t \in taken /\ \E s \in Threads : pc[s] \in PostBody /\ x <= time[s]

PastSync ==
  \A i \in DOMAIN trace_file : IsSync(trace_file[i]) =>
    \A t \in Threads :
      /\ \A j \in DOMAIN trace_stream[t] : trace_stream[t][j].time # trace_file[i].time
      /\ IsRegistered(t) /\ pc[t] # "finished" =>
           lamport_timestamp[t] >= trace_file[i].time \/ Pending(t, trace_file[i].time)

FileInv ==
  /\ FileBound /\ StreamInv /\ OwnLines /\ RegisterLines /\ FinishLines /\ PastSync
  /\ SyncIsBarrier /\ MergeContract

(***************************************************************************)
(* The steps, as the file sees them                                        *)
(***************************************************************************)
\* The line a step adds behind what is in the buffer of thread t.
NewLine(t, line) ==
  /\ line \in Lines
  /\ lamport_timestamp'[t] = line.time /\ line.time > lamport_timestamp[t]
  /\ ~Closed(t)
  /\ \/ /\ line.tid = t /\ line.what # "tr"
        /\ IsRegistered(t) /\ t \in pin_threadid_set
        /\ UNCHANGED user_threadid
     \/ /\ ~IsRegistered(t)
        /\ \A i \in DOMAIN trace_file : trace_file[i].time < line.time
        /\ \/ /\ line.what = "tr" /\ line.tid = t
              /\ user_threadid' = [user_threadid EXCEPT ![t] = t]
           \/ /\ line.what \notin {"tr", "tf"} /\ line.tid = Unregistered
              /\ UNCHANGED user_threadid
  /\ IF IsSync(line)
     THEN /\ \A i \in DOMAIN trace_file : trace_file[i].time < line.time
          /\ \A u \in Threads : \A j \in DOMAIN trace_stream[u] :
               trace_stream[u][j].time < line.time
          /\ \A u \in Threads : IsRegistered(u)' /\ pc'[u] # "finished" =>
               lamport_timestamp'[u] >= line.time \/ Pending(u, line.time)'
     ELSE line.what # "thread_sync" => t \notin taken
  /\ line.what = "tf" => Closed(t)' /\ performed'[t] < line.time

\* The line is buffered, or written after the buffer.
Adds(t, line) ==
  /\ line.what \in Buffered /\ line.tid = t /\ t \notin taken
  /\ trace_stream' = [trace_stream EXCEPT ![t] = Append(trace_stream[t], line)]
  /\ UNCHANGED trace_file

Writes(t, line) ==
  /\ trace_file' = trace_file \o Append(trace_stream[t], line)
  /\ trace_stream' = [trace_stream EXCEPT ![t] = <<>>]
  /\ \E u \in Threads : Bounds(u)' /\ line.time <= lamport_timestamp'[u]

FileStep ==
  /\ Advance
  /\ \A t \in Threads : Closed(t) => Closed(t)' /\ performed'[t] = performed[t]
  /\ \/ /\ UNCHANGED <<trace_file, trace_stream, user_threadid>>
        /\ \A t \in Threads : Closed(t)' /\ IsRegistered(t) => Closed(t)
     \/ \E t \in Threads, line \in Lines :
          /\ NewLine(t, line)
          /\ Adds(t, line) \/ Writes(t, line)
          /\ \A u \in Threads :
               Closed(u)' /\ IsRegistered(u)' => Closed(u) \/ (u = t /\ line.what = "tf")
  /\ \A t \in pin_threadid_set : t \in pin_threadid_set' \/ Closed(t)
  /\ pc'[Main] # "finished" =>
       /\ pc[Main] # "finished"
       /\ \A t \in Threads : Bounds(t) =>
            \E u \in Threads : Bounds(u)' /\ lamport_timestamp'[u] >= lamport_timestamp[t]
  /\ \A t \in Threads : pc'[t] # "finished" =>
       /\ pc[t] # "finished"
       /\ \A x \in Nat : Pending(t, x) => lamport_timestamp'[t] >= x \/ Pending(t, x)'

(***************************************************************************)
(* What such a step keeps                                                  *)
(***************************************************************************)
LEMMA FileTypes ==
  ASSUME TypeInv
  PROVE  /\ trace_file \in Seq(Lines) /\ trace_stream \in [Threads -> Seq(Lines)]
         /\ user_threadid \in [Threads -> Threads \cup {Unregistered}]
         /\ lamport_timestamp \in [Threads -> Nat]
         /\ \A t \in Threads : lamport_timestamp[t] \in Nat /\ performed[t] \in Nat
         /\ \A i \in DOMAIN trace_file : trace_file[i].time \in Nat
         /\ \A t \in Threads : \A j \in DOMAIN trace_stream[t] :
              trace_stream[t][j] \in Lines /\ trace_stream[t][j].time \in Nat
         /\ Unregistered \notin Threads
<1>1. /\ trace_file \in Seq(Lines) /\ trace_stream \in [Threads -> Seq(Lines)]
      /\ user_threadid \in [Threads -> Threads \cup {Unregistered}]
      /\ lamport_timestamp \in [Threads -> Nat] /\ performed \in [Threads -> Nat]
  BY DEF TypeInv, TypeOK
<1>2. Unregistered \notin Threads
  BY DEF Unregistered
<1>3. \A t \in Threads : \A j \in DOMAIN trace_stream[t] :
        trace_stream[t][j] \in Lines /\ trace_stream[t][j].time \in Nat
  BY <1>1, FileLines
<1> QED BY <1>1, <1>2, <1>3, FileLines

LEMMA ClocksForward ==
  ASSUME TypeInv, TypeInv', FileStep
  PROVE  \A t \in Threads : /\ lamport_timestamp[t] \in Nat /\ lamport_timestamp'[t] \in Nat
                            /\ lamport_timestamp'[t] >= lamport_timestamp[t]
  BY DEF TypeInv, TypeOK, FileStep, Advance

\* A step that writes no line.
LEMMA SameKeeps ==
  ASSUME TypeInv, TypeInv', FileInv, FileStep,
         UNCHANGED <<trace_file, trace_stream, user_threadid>>,
         \A t \in Threads : Closed(t)' /\ IsRegistered(t) => Closed(t)
  PROVE  FileInv'
<1> USE DEF IsRegistered
<1>0. /\ \A i \in DOMAIN trace_file : trace_file[i].time \in Nat
      /\ \A t \in Threads : \A j \in DOMAIN trace_stream[t] : trace_stream[t][j].time \in Nat
      /\ \A t \in Threads : /\ lamport_timestamp[t] \in Nat /\ lamport_timestamp'[t] \in Nat
                             /\ lamport_timestamp'[t] >= lamport_timestamp[t]
  BY FileTypes, ClocksForward
<1>a. ASSUME NEW t \in Threads, NEW x \in Nat, x <= lamport_timestamp[t]
      PROVE  x <= lamport_timestamp'[t]
  BY <1>0, <1>a
<1>1. FileBound'
  <2>1. pc'[Main] # "finished" =>
          /\ pc[Main] # "finished"
          /\ \A t \in Threads : Bounds(t) =>
               \E u \in Threads : Bounds(u)' /\ lamport_timestamp'[u] >= lamport_timestamp[t]
    BY DEF FileStep
  <2> SUFFICES ASSUME pc'[Main] # "finished", NEW i \in DOMAIN trace_file
               PROVE  \E u \in Threads : Bounds(u)' /\ trace_file[i].time <= lamport_timestamp'[u]
    BY DEF FileBound
  <2>2. PICK t \in Threads : Bounds(t) /\ trace_file[i].time <= lamport_timestamp[t]
    BY <2>1 DEF FileInv, FileBound
  <2>3. PICK u \in Threads : Bounds(u)' /\ lamport_timestamp'[u] >= lamport_timestamp[t]
    BY <2>1, <2>2
  <2>4. trace_file[i].time \in Nat /\ lamport_timestamp[t] \in Nat /\ lamport_timestamp'[u] \in Nat
    BY <1>0
  <2>5. trace_file[i].time <= lamport_timestamp'[u]
    BY <2>2, <2>3, <2>4
  <2> QED BY <2>3, <2>5
<1>2. StreamInv'
  <2> SUFFICES ASSUME NEW t \in Threads
               PROVE  /\ trace_stream[t] # <<>> =>
                           IsRegistered(t) /\ ~Closed(t)' /\ t \in pin_threadid_set'
                      /\ \A j \in DOMAIN trace_stream[t] :
                           /\ trace_stream[t][j].tid = t /\ trace_stream[t][j].what \in Buffered
                           /\ trace_stream[t][j].time <= lamport_timestamp'[t]
                           /\ \A k \in DOMAIN trace_stream[t] :
                                k < j => trace_stream[t][k].time < trace_stream[t][j].time
    BY DEF StreamInv
  <2>1. trace_stream[t] # <<>> => IsRegistered(t) /\ ~Closed(t) /\ t \in pin_threadid_set
    BY DEF FileInv, StreamInv
  <2>2. trace_stream[t] # <<>> => ~Closed(t)' /\ t \in pin_threadid_set'
    BY <2>1 DEF FileStep
  <2>3. \A j \in DOMAIN trace_stream[t] :
          /\ trace_stream[t][j].tid = t /\ trace_stream[t][j].what \in Buffered
          /\ trace_stream[t][j].time <= lamport_timestamp[t]
          /\ \A k \in DOMAIN trace_stream[t] :
               k < j => trace_stream[t][k].time < trace_stream[t][j].time
    BY DEF FileInv, StreamInv
  <2> QED BY <1>0, <1>a, <2>1, <2>2, <2>3
<1>3. OwnLines'
  <2> SUFFICES ASSUME NEW t \in Threads, NEW i \in DOMAIN trace_file, trace_file[i].tid = t
               PROVE  /\ IsRegistered(t)
                      /\ trace_file[i].time <= lamport_timestamp'[t]
                      /\ \A j \in DOMAIN trace_stream[t] :
                           trace_file[i].time < trace_stream[t][j].time
    BY DEF OwnLines
  <2>1. /\ IsRegistered(t)
        /\ trace_file[i].time <= lamport_timestamp[t]
        /\ \A j \in DOMAIN trace_stream[t] : trace_file[i].time < trace_stream[t][j].time
    BY DEF FileInv, OwnLines
  <2> QED BY <1>0, <1>a, <2>1
<1>4. RegisterLines'
  BY DEF FileInv, RegisterLines, OnlyLine
<1>5. FinishLines'
  BY DEF FileInv, FileStep, FinishLines, OnlyLine
<1>6. PastSync'
  <2> SUFFICES ASSUME NEW i \in DOMAIN trace_file, IsSync(trace_file[i]), NEW t \in Threads
               PROVE  /\ \A j \in DOMAIN trace_stream[t] :
                           trace_stream[t][j].time # trace_file[i].time
                      /\ IsRegistered(t) /\ pc'[t] # "finished" =>
                           \/ lamport_timestamp'[t] >= trace_file[i].time
                           \/ Pending(t, trace_file[i].time)'
    BY DEF PastSync, IsSync
  <2>0. PICK x \in Nat : x = trace_file[i].time
    BY <1>0
  <2>1. /\ \A j \in DOMAIN trace_stream[t] : trace_stream[t][j].time # x
        /\ IsRegistered(t) /\ pc[t] # "finished" => lamport_timestamp[t] >= x \/ Pending(t, x)
    BY <2>0 DEF FileInv, PastSync
  <2>2. pc'[t] # "finished" =>
          pc[t] # "finished" /\ (Pending(t, x) => lamport_timestamp'[t] >= x \/ Pending(t, x)')
    BY DEF FileStep
  <2>3. lamport_timestamp[t] >= x => lamport_timestamp'[t] >= x
    BY <1>0, <1>a
  <2>4. IsRegistered(t) /\ pc'[t] # "finished" => lamport_timestamp'[t] >= x \/ Pending(t, x)'
    BY <2>1, <2>2, <2>3
  <2>5. Pending(t, x)' => Pending(t, trace_file[i].time)'
    BY <2>0
  <2> QED BY <2>0, <2>1, <2>4, <2>5
<1>7. SyncIsBarrier'
  BY DEF FileInv, SyncIsBarrier, IsSync
<1>8. MergeContract'
  BY DEF FileInv, MergeContract
<1> QED BY <1>1, <1>2, <1>3, <1>4, <1>5, <1>6, <1>7, <1>8 DEF FileInv

\* Who is registered and who is closed after a step that makes a line.
LEMMA LineControl ==
  ASSUME TypeInv, TypeInv', Registration, NEW t \in Threads, NEW line \in Lines, NewLine(t, line)
  PROVE  /\ \A u \in Threads : IsRegistered(u) => IsRegistered(u)'
         /\ \A u \in Threads \ {t} : IsRegistered(u)' => IsRegistered(u)
         /\ IsRegistered(t)' /\ ~IsRegistered(t) => line.what = "tr" /\ line.tid = t
         /\ line.tid = t => IsRegistered(t)'
         /\ line.tid \in {t, Unregistered}
         /\ line.tid = Unregistered => ~IsRegistered(t)
         /\ line.what = "tr" => line.tid = t /\ ~IsRegistered(t)
         /\ line.what = "tf" => line.tid = t /\ IsRegistered(t) /\ ~Closed(t)
         /\ line.time \in Nat
<1> USE FileTypes DEF IsRegistered
<1>1. line.time \in Nat
  BY DEF Lines
<1>2. user_threadid' = user_threadid \/ user_threadid' = [user_threadid EXCEPT ![t] = t]
  BY DEF NewLine
<1>3. user_threadid[t] \in {t, Unregistered}
  BY DEF Registration
<1>4. t # Unregistered
  OBVIOUS
<1> QED BY <1>1, <1>2, <1>3, <1>4 DEF NewLine

\* A step that buffers a line.
LEMMA AddsKeeps ==
  ASSUME TypeInv, TypeInv', Registration, FileInv, FileStep,
         NEW t \in Threads, NEW line \in Lines, NewLine(t, line), Adds(t, line),
         \A u \in Threads :
           Closed(u)' /\ IsRegistered(u)' => Closed(u) \/ (u = t /\ line.what = "tf")
  PROVE  FileInv'
<1> /\ \A u \in Threads : lamport_timestamp[u] \in Nat /\ lamport_timestamp'[u] \in Nat
    /\ \A u \in Threads : lamport_timestamp'[u] >= lamport_timestamp[u]
    /\ \A i \in DOMAIN trace_file : trace_file[i].time \in Nat
    /\ \A u \in Threads : \A j \in DOMAIN trace_stream[u] : trace_stream[u][j].time \in Nat
  BY FileTypes, ClocksForward
<1> USE DEF IsRegistered
<1>1. /\ UNCHANGED <<trace_file, user_threadid>> /\ line.tid = t /\ line.what \in Buffered
      /\ user_threadid[t] # Unregistered /\ ~Closed(t) /\ t \in pin_threadid_set /\ t \notin taken
      /\ line.time > lamport_timestamp[t] /\ lamport_timestamp'[t] = line.time
      /\ line.time \in Nat
    BY LineControl, FileTypes DEF NewLine, Adds, Buffered
<1>2. /\ \A u \in Threads \ {t} : trace_stream'[u] = trace_stream[u]
      /\ trace_stream'[t] # <<>>
      /\ Len(trace_stream[t]) \in Nat /\ DOMAIN trace_stream[t] = 1 .. Len(trace_stream[t])
      /\ DOMAIN trace_stream'[t] = 1 .. Len(trace_stream[t]) + 1
      /\ \A j \in DOMAIN trace_stream[t] : trace_stream'[t][j] = trace_stream[t][j]
      /\ trace_stream'[t][Len(trace_stream[t]) + 1] = line
  <2> DEFINE s == trace_stream[t]
  <2>1. trace_stream' = [trace_stream EXCEPT ![t] = Append(s, line)]
    BY DEF Adds
  <2>2. s \in Seq(Lines) /\ DOMAIN s = 1 .. Len(s) /\ Len(s) \in Nat
    BY FileTypes, LenProperties
  <2>3. /\ DOMAIN Append(s, line) = 1 .. Len(s) + 1 /\ Append(s, line) # <<>>
        /\ \A j \in 1 .. Len(s) : Append(s, line)[j] = s[j]
        /\ Append(s, line)[Len(s) + 1] = line
    BY <2>2, AppendProperties, LenProperties
  <2> QED BY <2>1, <2>2, <2>3, FileTypes
<1>a. ASSUME NEW u \in Threads, NEW j \in DOMAIN trace_stream'[u]
      PROVE  \/ j \in DOMAIN trace_stream[u] /\ trace_stream'[u][j] = trace_stream[u][j]
             \/ u = t /\ trace_stream'[u][j] = line
  <2>1. CASE u # t
    BY <1>2, <2>1
  <2>2. CASE u = t
    BY <1>2, <2>2
  <2> QED BY <2>1, <2>2
<1>3. \A u \in Threads : Closed(u)' /\ user_threadid[u] # Unregistered => Closed(u)
  BY <1>1 DEF Buffered
<1>4. FileBound'
  <2>1. pc'[Main] # "finished" =>
          /\ pc[Main] # "finished"
          /\ \A u \in Threads : Bounds(u) =>
               \E w \in Threads : Bounds(w)' /\ lamport_timestamp'[w] >= lamport_timestamp[u]
    BY DEF FileStep
  <2> SUFFICES ASSUME pc'[Main] # "finished", NEW i \in DOMAIN trace_file
               PROVE  \E u \in Threads : Bounds(u)' /\ trace_file[i].time <= lamport_timestamp'[u]
    BY <1>1 DEF FileBound
  <2>2. PICK w \in Threads : Bounds(w) /\ trace_file[i].time <= lamport_timestamp[w]
    BY <2>1 DEF FileInv, FileBound
  <2>3. PICK u \in Threads : Bounds(u)' /\ lamport_timestamp'[u] >= lamport_timestamp[w]
    BY <2>1, <2>2
  <2> QED BY <2>2, <2>3
<1>5. StreamInv'
  <2> SUFFICES ASSUME NEW u \in Threads
               PROVE  /\ trace_stream'[u] # <<>> =>
                           user_threadid'[u] # Unregistered /\ ~Closed(u)' /\ u \in pin_threadid_set'
                      /\ \A j \in DOMAIN trace_stream'[u] :
                           /\ trace_stream'[u][j].tid = u /\ trace_stream'[u][j].what \in Buffered
                           /\ trace_stream'[u][j].time <= lamport_timestamp'[u]
                           /\ \A k \in DOMAIN trace_stream'[u] :
                                k < j => trace_stream'[u][k].time < trace_stream'[u][j].time
    BY DEF StreamInv
  <2>0. \A w \in pin_threadid_set : w \in pin_threadid_set' \/ Closed(w)
    BY DEF FileStep
  <2>1. CASE u # t
    <3>1. trace_stream'[u] = trace_stream[u] /\ user_threadid'[u] = user_threadid[u]
      BY <1>1, <1>2, <2>1
    <3>2. /\ trace_stream[u] # <<>> =>
               user_threadid[u] # Unregistered /\ ~Closed(u) /\ u \in pin_threadid_set
          /\ \A j \in DOMAIN trace_stream[u] :
               /\ trace_stream[u][j].tid = u /\ trace_stream[u][j].what \in Buffered
               /\ trace_stream[u][j].time <= lamport_timestamp[u]
               /\ \A k \in DOMAIN trace_stream[u] :
                    k < j => trace_stream[u][k].time < trace_stream[u][j].time
      BY DEF FileInv, StreamInv
    <3>3. ASSUME NEW j \in DOMAIN trace_stream[u]
          PROVE  trace_stream[u][j].time <= lamport_timestamp'[u]
      <4>1. trace_stream[u][j].time <= lamport_timestamp[u] /\ trace_stream[u][j].time \in Nat
        BY <3>2
      <4>2. lamport_timestamp[u] \in Nat /\ lamport_timestamp'[u] \in Nat
            /\ lamport_timestamp'[u] >= lamport_timestamp[u]
        OBVIOUS
      <4> QED BY <4>1, <4>2
    <3> QED BY <1>3, <2>0, <3>1, <3>2, <3>3
  <2>2. CASE u = t
    <3>1. user_threadid'[t] # Unregistered /\ ~Closed(t)' /\ t \in pin_threadid_set'
      BY <1>1, <1>3, <2>0
    <3>2. \A j \in DOMAIN trace_stream[t] :
            trace_stream[t][j].tid = t /\ trace_stream[t][j].what \in Buffered
            /\ trace_stream[t][j].time <= lamport_timestamp[t] /\ trace_stream[t][j].time < line.time
      BY <1>1 DEF FileInv, StreamInv
    <3>3. \A j \in DOMAIN trace_stream'[t] :
            j \in DOMAIN trace_stream[t] \/ j = Len(trace_stream[t]) + 1
      BY <1>2
    <3>4. \A j, k \in DOMAIN trace_stream[t] : k < j => trace_stream[t][k].time < trace_stream[t][j].time
      BY DEF FileInv, StreamInv
    <3>5. ASSUME NEW j \in DOMAIN trace_stream'[t]
          PROVE  /\ trace_stream'[t][j].tid = t /\ trace_stream'[t][j].what \in Buffered
                 /\ trace_stream'[t][j].time <= lamport_timestamp'[t]
      <4>1. CASE j \in DOMAIN trace_stream[t]
        <5>1. trace_stream'[t][j] = trace_stream[t][j]
          BY <1>2, <4>1
        <5>2. trace_stream[t][j].time <= lamport_timestamp'[t]
          BY <3>2, <4>1
        <5> QED BY <3>2, <4>1, <5>1, <5>2
      <4>2. CASE j = Len(trace_stream[t]) + 1
        BY <1>1, <1>2, <4>2
      <4> QED BY <3>3, <4>1, <4>2
    <3>6. ASSUME NEW j \in DOMAIN trace_stream'[t], NEW k \in DOMAIN trace_stream'[t], k < j
          PROVE  trace_stream'[t][k].time < trace_stream'[t][j].time
      <4>1. k \in DOMAIN trace_stream[t] /\ trace_stream'[t][k] = trace_stream[t][k]
        BY <1>2, <3>6
      <4> QED BY <1>2, <3>2, <3>3, <3>4, <3>6, <4>1
    <3> QED BY <2>2, <3>1, <3>5, <3>6
  <2> QED BY <2>1, <2>2
<1>6. OwnLines'
  <2> SUFFICES ASSUME NEW u \in Threads, NEW i \in DOMAIN trace_file, trace_file[i].tid = u
               PROVE  /\ user_threadid[u] # Unregistered
                      /\ trace_file[i].time <= lamport_timestamp'[u]
                      /\ \A j \in DOMAIN trace_stream'[u] :
                           trace_file[i].time < trace_stream'[u][j].time
    BY <1>1 DEF OwnLines
  <2>1. /\ user_threadid[u] # Unregistered
        /\ trace_file[i].time <= lamport_timestamp[u]
        /\ \A j \in DOMAIN trace_stream[u] : trace_file[i].time < trace_stream[u][j].time
    BY DEF FileInv, OwnLines
  <2>2. trace_file[i].time <= lamport_timestamp'[u]
    BY <2>1
  <2>3. ASSUME NEW j \in DOMAIN trace_stream'[u] PROVE trace_file[i].time < trace_stream'[u][j].time
    BY <1>1, <1>a, <2>1
  <2> QED BY <2>1, <2>2, <2>3
<1>7. RegisterLines'
  BY <1>1 DEF FileInv, RegisterLines, OnlyLine
<1>8. FinishLines'
  BY <1>1, <1>3 DEF FileInv, FileStep, FinishLines, OnlyLine
<1>9. PastSync'
  <2> SUFFICES ASSUME NEW i \in DOMAIN trace_file, IsSync(trace_file[i]), NEW u \in Threads
               PROVE  /\ \A j \in DOMAIN trace_stream'[u] :
                           trace_stream'[u][j].time # trace_file[i].time
                      /\ user_threadid[u] # Unregistered /\ pc'[u] # "finished" =>
                           \/ lamport_timestamp'[u] >= trace_file[i].time
                           \/ Pending(u, trace_file[i].time)'
    BY <1>1 DEF PastSync, IsSync
  <2>1. /\ \A j \in DOMAIN trace_stream[u] : trace_stream[u][j].time # trace_file[i].time
        /\ user_threadid[u] # Unregistered /\ pc[u] # "finished" =>
             lamport_timestamp[u] >= trace_file[i].time \/ Pending(u, trace_file[i].time)
    BY DEF FileInv, PastSync
  <2>2. ASSUME u = t PROVE line.time # trace_file[i].time
    BY <1>1, <2>1, <2>2 DEF Pending, Closed
  <2>4. pc'[u] # "finished" =>
          pc[u] # "finished" /\ \A x \in Nat : Pending(u, x) =>
                                  lamport_timestamp'[u] >= x \/ Pending(u, x)'
    BY DEF FileStep
  <2>5. \A j \in DOMAIN trace_stream'[u] : trace_stream'[u][j].time # trace_file[i].time
    BY <1>a, <2>1, <2>2
  <2>6. trace_file[i].time \in Nat /\ lamport_timestamp[u] \in Nat /\ lamport_timestamp'[u] \in Nat
        /\ lamport_timestamp'[u] >= lamport_timestamp[u]
    OBVIOUS
  <2> QED BY <1>1, <2>1, <2>4, <2>5, <2>6
<1>10. SyncIsBarrier'
  BY <1>1 DEF FileInv, SyncIsBarrier, IsSync
<1>11. MergeContract'
  BY <1>1 DEF FileInv, MergeContract
<1> QED BY <1>4, <1>5, <1>6, <1>7, <1>8, <1>9, <1>10, <1>11 DEF FileInv

\* The lines of the file after a step that writes to it.
LEMMA WrittenLines ==
  ASSUME TypeInv, FileInv, NEW t \in Threads, NEW line \in Lines,
         line.time > lamport_timestamp[t], Writes(t, line)
  PROVE  /\ trace_file' \in Seq(Lines)
         /\ \A i \in DOMAIN trace_file :
              i \in DOMAIN trace_file' /\ trace_file'[i] = trace_file[i] /\ i < Len(trace_file')
         /\ Len(trace_file') \in DOMAIN trace_file' /\ trace_file'[Len(trace_file')] = line
         /\ Len(trace_file') \notin DOMAIN trace_file
         /\ \A i \in DOMAIN trace_file' :
              \/ i \in DOMAIN trace_file
              \/ \E j \in DOMAIN trace_stream[t] :
                   /\ i = Len(trace_file) + j /\ i < Len(trace_file')
                   /\ trace_file'[i] = trace_stream[t][j]
              \/ i = Len(trace_file')
         /\ \A i \in DOMAIN trace_file', k \in DOMAIN trace_file :
              i \notin DOMAIN trace_file => i > k
         /\ \A i \in DOMAIN trace_file' : i <= Len(trace_file') /\ i \in Nat
<1>1. /\ trace_file \in Seq(Lines) /\ trace_stream[t] \in Seq(Lines)
      /\ trace_file' = trace_file \o Append(trace_stream[t], line)
  BY FileTypes DEF Writes
<1>2. /\ trace_file' \in Seq(Lines) /\ Len(trace_file') = Len(trace_file) + Len(trace_stream[t]) + 1
      /\ \A i \in DOMAIN trace_file :
           i \in DOMAIN trace_file' /\ trace_file'[i] = trace_file[i] /\ i < Len(trace_file')
      /\ Len(trace_file') \in DOMAIN trace_file' /\ trace_file'[Len(trace_file')] = line
      /\ \A i \in DOMAIN trace_file' :
           \/ i \in DOMAIN trace_file
           \/ \E j \in DOMAIN trace_stream[t] :
                /\ i = Len(trace_file) + j /\ i < Len(trace_file')
                /\ trace_file'[i] = trace_stream[t][j]
           \/ i = Len(trace_file')
  <2> DEFINE file0 == trace_file
             stream == trace_stream[t]
             after == trace_file'
  <2>1. file0 \in Seq(Lines) /\ stream \in Seq(Lines) /\ after = file0 \o Append(stream, line)
    BY <1>1
  <2>a. /\ after \in Seq(Lines) /\ Len(after) = Len(file0) + Len(stream) + 1
        /\ \A i \in DOMAIN file0 : i \in DOMAIN after /\ after[i] = file0[i] /\ i < Len(after)
        /\ Len(after) \in DOMAIN after /\ after[Len(after)] = line
        /\ \A i \in DOMAIN after :
             \/ i \in DOMAIN file0
             \/ \E j \in DOMAIN stream :
                  i = Len(file0) + j /\ i < Len(after) /\ after[i] = stream[j]
             \/ i = Len(after)
    <3> HIDE DEF file0, stream, after
    <3> DEFINE added == Append(stream, line)
    <3>1. /\ added \in Seq(Lines) /\ Len(added) = Len(stream) + 1
          /\ \A j \in 1 .. Len(stream) : added[j] = stream[j]
          /\ added[Len(stream) + 1] = line
          /\ after = file0 \o added
      BY <2>1, AppendProperties
    <3>2. /\ DOMAIN stream = 1 .. Len(stream) /\ Len(stream) \in Nat
          /\ DOMAIN file0 = 1 .. Len(file0) /\ Len(file0) \in Nat
      BY <2>1, LenProperties
    <3> HIDE DEF added
    <3>3. /\ after \in Seq(Lines) /\ Len(after) = Len(file0) + Len(added)
          /\ \A i \in 1 .. Len(file0) + Len(added) :
               after[i] = IF i <= Len(file0) THEN file0[i] ELSE added[i - Len(file0)]
      <4> DEFINE both == file0 \o added
      <4>1. /\ both \in Seq(Lines) /\ Len(both) = Len(file0) + Len(added)
            /\ \A i \in 1 .. Len(file0) + Len(added) :
                 both[i] = IF i <= Len(file0) THEN file0[i] ELSE added[i - Len(file0)]
        BY <2>1, <3>1, ConcatProperties
      <4>2. after = both
        BY <3>1
      <4> HIDE DEF both
      <4> QED BY <4>1, <4>2
    <3>4. DOMAIN after = 1 .. Len(file0) + Len(stream) + 1
      BY <3>1, <3>3, LenProperties
    <3>5. \A i \in 1 .. Len(file0) : i \in DOMAIN after /\ after[i] = file0[i] /\ i < Len(after)
      BY <3>1, <3>2, <3>3, <3>4
    <3>6. Len(after) \in DOMAIN after /\ after[Len(after)] = line
      BY <3>1, <3>2, <3>3, <3>4
    <3>7. ASSUME NEW i \in DOMAIN after, i \notin DOMAIN file0, i # Len(after)
          PROVE  \E j \in DOMAIN stream : i = Len(file0) + j /\ i < Len(after) /\ after[i] = stream[j]
      <4>1. /\ i \in 1 .. Len(file0) + Len(stream) + 1 /\ i \notin 1 .. Len(file0)
            /\ Len(after) = Len(file0) + Len(stream) + 1 /\ i # Len(after)
        <5>1. Len(after) = Len(file0) + Len(stream) + 1
          BY <3>1, <3>2, <3>3
        <5> QED BY <3>2, <3>4, <3>7, <5>1
      <4>2. i - Len(file0) \in 1 .. Len(stream) /\ i = Len(file0) + (i - Len(file0)) /\ i < Len(after)
            /\ ~(i <= Len(file0))
        BY <3>2, <4>1
      <4>3. after[i] = added[i - Len(file0)]
        BY <3>1, <3>3, <4>1, <4>2
      <4>4. added[i - Len(file0)] = stream[i - Len(file0)]
        BY <3>1, <4>2
      <4> QED BY <3>2, <4>2, <4>3, <4>4
    <3> QED BY <3>1, <3>2, <3>3, <3>5, <3>6, <3>7
  <2> QED BY <2>a
<1>3. /\ DOMAIN trace_file' = 1 .. Len(trace_file') /\ Len(trace_file') \in Nat
      /\ DOMAIN trace_file = 1 .. Len(trace_file) /\ Len(trace_file) \in Nat
      /\ Len(trace_stream[t]) \in Nat
  BY <1>1, <1>2, LenProperties
<1> QED BY <1>2, <1>3

\* What is known of the buffer and of the new line when they are written.
LEMMA WrittenTimes ==
  ASSUME TypeInv, TypeInv', Registration, FileInv, FileStep,
         NEW t \in Threads, NEW line \in Lines, NewLine(t, line), Writes(t, line)
  PROVE  /\ \A j \in DOMAIN trace_stream[t] :
              /\ IsRegistered(t) /\ ~Closed(t) /\ t \in pin_threadid_set
              /\ trace_stream[t][j].tid = t /\ trace_stream[t][j].what \in Buffered
              /\ trace_stream[t][j].time \in Nat /\ trace_stream[t][j].time < line.time
              /\ ~IsSync(trace_stream[t][j])
         /\ \A i \in DOMAIN trace_file : trace_file[i].tid = t =>
              /\ IsRegistered(t) /\ trace_file[i].time < line.time
              /\ \A j \in DOMAIN trace_stream[t] : trace_file[i].time < trace_stream[t][j].time
         /\ line.time > lamport_timestamp[t] /\ lamport_timestamp'[t] = line.time
         /\ line.time \in Nat
<1> /\ lamport_timestamp[t] \in Nat
    /\ \A i \in DOMAIN trace_file : trace_file[i].time \in Nat
    /\ \A j \in DOMAIN trace_stream[t] : trace_stream[t][j].time \in Nat
    /\ Unregistered \notin Threads
  BY FileTypes
<1>1. line.time > lamport_timestamp[t] /\ lamport_timestamp'[t] = line.time /\ line.time \in Nat
  BY LineControl DEF NewLine
<1>2. ASSUME NEW j \in DOMAIN trace_stream[t]
      PROVE  /\ IsRegistered(t) /\ ~Closed(t) /\ t \in pin_threadid_set
             /\ trace_stream[t][j].tid = t /\ trace_stream[t][j].what \in Buffered
             /\ trace_stream[t][j].time \in Nat /\ trace_stream[t][j].time < line.time
             /\ ~IsSync(trace_stream[t][j])
  <2>1. trace_stream[t] # <<>>
    OBVIOUS
  <2>2. /\ IsRegistered(t) /\ ~Closed(t) /\ t \in pin_threadid_set
        /\ trace_stream[t][j].tid = t /\ trace_stream[t][j].what \in Buffered
        /\ trace_stream[t][j].time <= lamport_timestamp[t]
    BY <2>1 DEF FileInv, StreamInv
  <2> QED BY <1>1, <2>2 DEF IsSync, Buffered
<1>3. ASSUME NEW i \in DOMAIN trace_file, trace_file[i].tid = t
      PROVE  /\ IsRegistered(t) /\ trace_file[i].time < line.time
             /\ \A j \in DOMAIN trace_stream[t] : trace_file[i].time < trace_stream[t][j].time
  <2>1. /\ IsRegistered(t) /\ trace_file[i].time <= lamport_timestamp[t]
        /\ \A j \in DOMAIN trace_stream[t] : trace_file[i].time < trace_stream[t][j].time
    BY <1>3 DEF FileInv, OwnLines
  <2> QED BY <1>1, <2>1
<1> QED BY <1>1, <1>2, <1>3

\* A step that writes to the file: the invariants of buffers and lines.
LEMMA WritesKeeps ==
  ASSUME TypeInv, TypeInv', Registration, FileInv, FileStep,
         NEW t \in Threads, NEW line \in Lines, NewLine(t, line), Writes(t, line),
         \A u \in Threads :
           Closed(u)' /\ IsRegistered(u)' => Closed(u) \/ (u = t /\ line.what = "tf")
  PROVE  FileBound' /\ StreamInv' /\ OwnLines' /\ RegisterLines' /\ FinishLines' /\ PastSync'
<1> DEFINE end == Len(trace_file')
<1> /\ \A u \in Threads : lamport_timestamp[u] \in Nat /\ lamport_timestamp'[u] \in Nat
    /\ \A u \in Threads : lamport_timestamp'[u] >= lamport_timestamp[u]
    /\ \A i \in DOMAIN trace_file : trace_file[i].time \in Nat
    /\ \A u \in Threads : \A j \in DOMAIN trace_stream[u] : trace_stream[u][j].time \in Nat
    /\ Unregistered \notin Threads
  BY FileTypes, ClocksForward
<1>1. /\ \A i \in DOMAIN trace_file : i \in DOMAIN trace_file' /\ trace_file'[i] = trace_file[i]
      /\ end \in DOMAIN trace_file' /\ trace_file'[end] = line /\ end \notin DOMAIN trace_file
      /\ \A i \in DOMAIN trace_file' :
           \/ i \in DOMAIN trace_file
           \/ \E j \in DOMAIN trace_stream[t] : trace_file'[i] = trace_stream[t][j]
           \/ i = end
  BY WrittenLines DEF NewLine
<1>2. /\ \A j \in DOMAIN trace_stream[t] :
           /\ IsRegistered(t) /\ ~Closed(t) /\ t \in pin_threadid_set
           /\ trace_stream[t][j].tid = t /\ trace_stream[t][j].what \in Buffered
           /\ trace_stream[t][j].time \in Nat /\ trace_stream[t][j].time < line.time
           /\ ~IsSync(trace_stream[t][j])
      /\ \A i \in DOMAIN trace_file : trace_file[i].tid = t =>
           /\ IsRegistered(t) /\ trace_file[i].time < line.time
      /\ line.time > lamport_timestamp[t] /\ lamport_timestamp'[t] = line.time
      /\ line.time \in Nat
  BY WrittenTimes
<1>3. /\ \A u \in Threads \ {t} : trace_stream'[u] = trace_stream[u]
      /\ trace_stream'[t] = <<>> /\ DOMAIN trace_stream'[t] = {}
  <2>1. trace_stream' = [trace_stream EXCEPT ![t] = <<>>] /\ DOMAIN <<>> = {}
    BY DEF Writes
  <2> QED BY <2>1, FileTypes
<1>4. /\ \A u \in Threads : IsRegistered(u) => IsRegistered(u)'
      /\ \A u \in Threads \ {t} : IsRegistered(u)' => IsRegistered(u)
      /\ IsRegistered(t)' /\ ~IsRegistered(t) => line.what = "tr" /\ line.tid = t
      /\ line.tid = t => IsRegistered(t)'
      /\ line.tid \in {t, Unregistered}
      /\ line.tid = Unregistered => ~IsRegistered(t)
      /\ line.what = "tr" => line.tid = t /\ ~IsRegistered(t)
      /\ line.what = "tf" => line.tid = t /\ IsRegistered(t) /\ ~Closed(t)
  BY LineControl
<1> HIDE DEF end
<1>5. FileBound'
  <2>1. pc'[Main] # "finished" =>
          /\ pc[Main] # "finished"
          /\ \A u \in Threads : Bounds(u) =>
               \E w \in Threads : Bounds(w)' /\ lamport_timestamp'[w] >= lamport_timestamp[u]
    BY DEF FileStep
  <2> SUFFICES ASSUME pc'[Main] # "finished", NEW i \in DOMAIN trace_file'
               PROVE  \E u \in Threads : Bounds(u)' /\ trace_file'[i].time <= lamport_timestamp'[u]
    BY DEF FileBound
  <2>2. ASSUME i \in DOMAIN trace_file
        PROVE  \E u \in Threads : Bounds(u)' /\ trace_file'[i].time <= lamport_timestamp'[u]
    <3>1. PICK w \in Threads : Bounds(w) /\ trace_file[i].time <= lamport_timestamp[w]
      BY <2>1, <2>2 DEF FileInv, FileBound
    <3>2. PICK u \in Threads : Bounds(u)' /\ lamport_timestamp'[u] >= lamport_timestamp[w]
      BY <2>1, <3>1
    <3> QED BY <1>1, <2>2, <3>1, <3>2
  <2>3. ASSUME trace_file'[i].time \in Nat, trace_file'[i].time <= line.time
        PROVE  \E u \in Threads : Bounds(u)' /\ trace_file'[i].time <= lamport_timestamp'[u]
    <3>1. PICK u \in Threads : Bounds(u)' /\ line.time <= lamport_timestamp'[u]
      BY DEF Writes
    <3> QED BY <1>2, <2>3, <3>1
  <2>4. i \in DOMAIN trace_file \/ (trace_file'[i].time \in Nat /\ trace_file'[i].time <= line.time)
    BY <1>1, <1>2
  <2> QED BY <2>2, <2>3, <2>4
<1>6. StreamInv'
  <2> SUFFICES ASSUME NEW u \in Threads
               PROVE  /\ trace_stream'[u] # <<>> =>
                           IsRegistered(u)' /\ ~Closed(u)' /\ u \in pin_threadid_set'
                      /\ \A j \in DOMAIN trace_stream'[u] :
                           /\ trace_stream'[u][j].tid = u /\ trace_stream'[u][j].what \in Buffered
                           /\ trace_stream'[u][j].time <= lamport_timestamp'[u]
                           /\ \A k \in DOMAIN trace_stream'[u] :
                                k < j => trace_stream'[u][k].time < trace_stream'[u][j].time
    BY DEF StreamInv
  <2>1. CASE u = t
    BY <1>3, <2>1
  <2>2. CASE u # t
    <3>1. trace_stream'[u] = trace_stream[u]
      BY <1>3, <2>2
    <3>2. /\ trace_stream[u] # <<>> =>
               IsRegistered(u) /\ ~Closed(u) /\ u \in pin_threadid_set
          /\ \A j \in DOMAIN trace_stream[u] :
               /\ trace_stream[u][j].tid = u /\ trace_stream[u][j].what \in Buffered
               /\ trace_stream[u][j].time <= lamport_timestamp[u]
               /\ \A k \in DOMAIN trace_stream[u] :
                    k < j => trace_stream[u][k].time < trace_stream[u][j].time
      BY DEF FileInv, StreamInv
    <3>3. ASSUME NEW j \in DOMAIN trace_stream[u]
          PROVE  trace_stream[u][j].time <= lamport_timestamp'[u]
      <4>1. trace_stream[u][j].time <= lamport_timestamp[u] /\ trace_stream[u][j].time \in Nat
        BY <3>2
      <4> QED BY <4>1
    <3>4. IsRegistered(u) /\ ~Closed(u) => IsRegistered(u)' /\ ~Closed(u)'
      BY <1>4, <2>2
    <3>5. u \in pin_threadid_set /\ ~Closed(u) => u \in pin_threadid_set'
      BY DEF FileStep
    <3> QED BY <3>1, <3>2, <3>3, <3>4, <3>5
  <2> QED BY <2>1, <2>2
<1>7. OwnLines'
  <2> SUFFICES ASSUME NEW u \in Threads, NEW i \in DOMAIN trace_file', trace_file'[i].tid = u
               PROVE  /\ IsRegistered(u)'
                      /\ trace_file'[i].time <= lamport_timestamp'[u]
                      /\ \A j \in DOMAIN trace_stream'[u] :
                           trace_file'[i].time < trace_stream'[u][j].time
    BY DEF OwnLines
  <2>1. CASE i \in DOMAIN trace_file
    <3>1. /\ trace_file'[i] = trace_file[i]
          /\ IsRegistered(u) /\ trace_file[i].time <= lamport_timestamp[u]
          /\ \A j \in DOMAIN trace_stream[u] : trace_file[i].time < trace_stream[u][j].time
      BY <1>1, <2>1 DEF FileInv, OwnLines
    <3>2. trace_file[i].time <= lamport_timestamp'[u]
      BY <2>1, <3>1
    <3>3. trace_stream'[u] = trace_stream[u] \/ DOMAIN trace_stream'[u] = {}
      BY <1>3
    <3> QED BY <1>4, <3>1, <3>2, <3>3
  <2>2. CASE i \notin DOMAIN trace_file
    <3>1. /\ trace_file'[i].time \in Nat /\ trace_file'[i].time <= line.time
          /\ trace_file'[i].tid = t => IsRegistered(t)'
          /\ trace_file'[i].tid \in {t, Unregistered}
      BY <1>1, <1>2, <1>4, <2>2
    <3> QED BY <1>2, <1>3, <3>1
  <2> QED BY <2>1, <2>2
<1>8. /\ \A u \in Threads \ {t} : \A i \in DOMAIN trace_file' :
           trace_file'[i].tid = u => i \in DOMAIN trace_file
      /\ \A i \in DOMAIN trace_file' : trace_file'[i].what \in {"tr", "tf"} =>
           i \in DOMAIN trace_file \/ i = end
  BY <1>1, <1>2, <1>4 DEF Buffered
<1>9. RegisterLines'
  <2>1. ASSUME NEW u \in Threads, IsRegistered(u)'
        PROVE  \E i \in DOMAIN trace_file' : OnlyLine(i, u, "tr")'
    <3>1. CASE IsRegistered(u)
      <4>1. PICK i \in DOMAIN trace_file : OnlyLine(i, u, "tr")
        BY <3>1 DEF FileInv, RegisterLines
      <4> QED BY <1>1, <1>4, <1>8, <3>1, <4>1 DEF OnlyLine
    <3>2. CASE ~IsRegistered(u)
      <4>1. u = t /\ line.what = "tr" /\ line.tid = t
        BY <1>4, <2>1, <3>2
      <4>2. \A i \in DOMAIN trace_file : trace_file[i].tid # t
        BY <1>2, <3>2, <4>1
      <4> QED BY <1>1, <1>8, <4>1, <4>2 DEF OnlyLine
    <3> QED BY <3>1, <3>2
  <2>2. ASSUME NEW i \in DOMAIN trace_file', trace_file'[i].tid = Unregistered
        PROVE  trace_file'[i].what # "tr"
    BY <1>1, <1>4, <1>8, <2>2 DEF FileInv, RegisterLines
  <2> QED BY <2>1, <2>2 DEF RegisterLines
<1>10. FinishLines'
  <2> SUFFICES ASSUME NEW u \in Threads, IsRegistered(u)'
               PROVE  IF Closed(u)'
                      THEN \E i \in DOMAIN trace_file' :
                             OnlyLine(i, u, "tf")' /\ performed'[u] < trace_file'[i].time
                      ELSE \A i \in DOMAIN trace_file' :
                             trace_file'[i].tid = u => trace_file'[i].what # "tf"
    BY DEF FinishLines
  <2>1. CASE Closed(u)
    <3>1. Closed(u)' /\ performed'[u] = performed[u]
      BY <2>1 DEF FileStep
    <3>3. u # t /\ IsRegistered(u)
      BY <1>4, <2>1 DEF NewLine
    <3>2. PICK i \in DOMAIN trace_file : OnlyLine(i, u, "tf") /\ performed[u] < trace_file[i].time
      BY <2>1, <3>3 DEF FileInv, FinishLines
    <3> QED BY <1>1, <1>8, <3>1, <3>2, <3>3 DEF OnlyLine
  <2>2. CASE ~Closed(u)
    <3>1. \A i \in DOMAIN trace_file : trace_file[i].tid = u => trace_file[i].what # "tf"
      BY <1>2, <1>4, <2>2 DEF FileInv, FinishLines
    <3>2. CASE u = t /\ line.what = "tf"
      <4>1. Closed(t)' /\ performed'[t] < line.time /\ line.tid = t
        BY <1>4, <3>2 DEF NewLine
      <4> QED BY <1>1, <1>8, <3>1, <3>2, <4>1 DEF OnlyLine
    <3>3. CASE ~(u = t /\ line.what = "tf")
      <4>1. ~Closed(u)'
        BY <2>2, <3>3
      <4> QED BY <1>1, <1>4, <1>8, <3>1, <3>3, <4>1
    <3> QED BY <3>2, <3>3
  <2> QED BY <2>1, <2>2
<1>11. PastSync'
  <2> SUFFICES ASSUME NEW i \in DOMAIN trace_file', IsSync(trace_file'[i]), NEW u \in Threads
               PROVE  /\ \A j \in DOMAIN trace_stream'[u] :
                           trace_stream'[u][j].time # trace_file'[i].time
                      /\ IsRegistered(u)' /\ pc'[u] # "finished" =>
                           \/ lamport_timestamp'[u] >= trace_file'[i].time
                           \/ Pending(u, trace_file[i].time)'
    BY DEF PastSync, IsSync
  <2>1. trace_stream'[u] = trace_stream[u] \/ DOMAIN trace_stream'[u] = {}
    BY <1>3
  <2>2. CASE i \in DOMAIN trace_file
    <3>0. PICK x \in Nat : x = trace_file[i].time
      BY <2>2
    <3>1. trace_file[i].time = x /\ trace_file'[i] = trace_file[i] /\ IsSync(trace_file[i])
      BY <1>1, <2>2, <3>0 DEF IsSync
    <3>2. /\ \A j \in DOMAIN trace_stream[u] : trace_stream[u][j].time # x
          /\ IsRegistered(u) /\ pc[u] # "finished" => lamport_timestamp[u] >= x \/ Pending(u, x)
      BY <2>2, <3>1 DEF FileInv, PastSync
    <3>3. pc'[u] # "finished" =>
            pc[u] # "finished" /\ \A y \in Nat : Pending(u, y) =>
                                    lamport_timestamp'[u] >= y \/ Pending(u, y)'
      BY DEF FileStep
    <3>4. ASSUME ~IsRegistered(u), IsRegistered(u)' PROVE lamport_timestamp'[u] >= x
      <4>1. u = t
        BY <1>4, <3>4
      <4>2. trace_file[i].time < line.time /\ lamport_timestamp'[t] = line.time /\ line.time \in Nat
        BY <1>2, <2>2, <3>4, <4>1 DEF NewLine
      <4> QED BY <3>1, <4>1, <4>2
    <3>5. lamport_timestamp[u] \in Nat /\ lamport_timestamp'[u] \in Nat
          /\ lamport_timestamp'[u] >= lamport_timestamp[u]
      OBVIOUS
    <3>6. IsRegistered(u)' /\ pc'[u] # "finished" => lamport_timestamp'[u] >= x \/ Pending(u, x)'
      BY <3>0, <3>1, <3>2, <3>3, <3>4, <3>5
    <3> QED BY <2>1, <3>1, <3>2, <3>6
  <2>3. CASE i \notin DOMAIN trace_file
    <3>1. trace_file'[i] = line /\ IsSync(line)
      BY <1>1, <1>2, <2>3 DEF IsSync
    <3> QED BY <1>2, <2>1, <3>1 DEF NewLine
  <2> QED BY <2>2, <2>3
<1> QED BY <1>5, <1>6, <1>7, <1>9, <1>10, <1>11

LEMMA WritesBarrier ==
  ASSUME TypeInv, TypeInv', Registration, FileInv, FileStep,
         NEW t \in Threads, NEW line \in Lines, NewLine(t, line), Writes(t, line)
  PROVE  SyncIsBarrier'
<1> DEFINE end == Len(trace_file')
<1> /\ \A i \in DOMAIN trace_file : trace_file[i].time \in Nat
    /\ lamport_timestamp[t] \in Nat
  BY FileTypes
<1>1. /\ \A i \in DOMAIN trace_file :
           i \in DOMAIN trace_file' /\ trace_file'[i] = trace_file[i] /\ i < end
      /\ trace_file'[end] = line /\ end \notin DOMAIN trace_file
      /\ \A i \in DOMAIN trace_file' :
           \/ i \in DOMAIN trace_file
           \/ \E j \in DOMAIN trace_stream[t] :
                trace_file'[i] = trace_stream[t][j] /\ i < end
           \/ i = end
      /\ \A i \in DOMAIN trace_file', k \in DOMAIN trace_file : i \notin DOMAIN trace_file => i > k
      /\ \A i \in DOMAIN trace_file' : i <= end /\ i \in Nat
  BY WrittenLines DEF NewLine
<1>2. /\ \A j \in DOMAIN trace_stream[t] :
           /\ trace_stream[t][j].time \in Nat /\ trace_stream[t][j].time < line.time
           /\ ~IsSync(trace_stream[t][j])
      /\ line.time > lamport_timestamp[t] /\ line.time \in Nat
  BY WrittenTimes
<1> HIDE DEF end
<1> SUFFICES ASSUME NEW i \in DOMAIN trace_file', NEW j \in DOMAIN trace_file',
                    IsSync(trace_file'[i])
             PROVE  /\ j < i => trace_file'[j].time < trace_file'[i].time
                    /\ j > i /\ trace_file'[j].what # "thread_sync" =>
                         trace_file'[j].time # trace_file'[i].time
  BY DEF SyncIsBarrier, IsSync
<1>3. CASE i \in DOMAIN trace_file /\ j \in DOMAIN trace_file
  BY <1>1, <1>3 DEF FileInv, SyncIsBarrier
<1>4. CASE i \in DOMAIN trace_file /\ j \notin DOMAIN trace_file
  <2>1. /\ trace_file'[i] = trace_file[i] /\ IsSync(trace_file[i]) /\ j > i /\ i \in Nat /\ j \in Nat
        /\ trace_file[i].time \in Nat
    BY <1>1, <1>4 DEF IsSync
  <2>2. \A k \in DOMAIN trace_stream[t] : trace_stream[t][k].time # trace_file[i].time
    BY <1>4, <2>1 DEF FileInv, PastSync
  <2>3. line.what # "thread_sync" => line.time # trace_file[i].time
    <3>1. CASE IsSync(line) \/ ~IsRegistered(t)
      BY <1>2, <1>4, <2>1, <3>1 DEF NewLine
    <3>2. CASE ~IsSync(line) /\ IsRegistered(t)
      <4>1. pc[t] # "finished" /\ (line.what # "thread_sync" => t \notin taken)
        BY <3>2 DEF NewLine, Closed
      <4>2. lamport_timestamp[t] >= trace_file[i].time \/ t \in taken
        BY <1>4, <2>1, <3>2, <4>1 DEF FileInv, PastSync, Pending
      <4> QED BY <1>2, <2>1, <4>1, <4>2
    <3> QED BY <3>1, <3>2
  <2> QED BY <1>1, <1>4, <2>1, <2>2, <2>3
<1>5. CASE i \notin DOMAIN trace_file
  <2>1. i = end /\ trace_file'[i] = line /\ IsSync(line)
    BY <1>1, <1>2, <1>5 DEF IsSync
  <2>2. /\ \A k \in DOMAIN trace_file : trace_file[k].time < line.time
        /\ j <= i /\ i \in Nat /\ j \in Nat
    BY <1>1, <2>1 DEF NewLine
  <2> QED BY <1>1, <1>2, <2>1, <2>2
<1> QED BY <1>3, <1>4, <1>5

LEMMA WritesContract ==
  ASSUME TypeInv, TypeInv', Registration, FileInv, FileStep,
         NEW t \in Threads, NEW line \in Lines, NewLine(t, line), Writes(t, line)
  PROVE  MergeContract'
<1> DEFINE end == Len(trace_file')
<1> /\ \A i \in DOMAIN trace_file : trace_file[i].time \in Nat
    /\ lamport_timestamp[t] \in Nat
    /\ Unregistered \notin Threads
    /\ \A j \in DOMAIN trace_stream[t] : trace_stream[t][j] \in Lines
  BY FileTypes
<1>1. /\ trace_file' \in Seq(Lines)
      /\ \A i \in DOMAIN trace_file :
           i \in DOMAIN trace_file' /\ trace_file'[i] = trace_file[i] /\ i < end
      /\ end \in DOMAIN trace_file' /\ trace_file'[end] = line /\ end \notin DOMAIN trace_file
      /\ \A i \in DOMAIN trace_file' :
           \/ i \in DOMAIN trace_file
           \/ \E j \in DOMAIN trace_stream[t] :
                /\ i = Len(trace_file) + j /\ i < end
                /\ trace_file'[i] = trace_stream[t][j]
           \/ i = end
      /\ \A i \in DOMAIN trace_file', k \in DOMAIN trace_file : i \notin DOMAIN trace_file => i > k
      /\ \A i \in DOMAIN trace_file' : i <= end /\ i \in Nat
  BY WrittenLines DEF NewLine
<1>2. /\ \A j \in DOMAIN trace_stream[t] :
           /\ IsRegistered(t) /\ ~Closed(t)
           /\ trace_stream[t][j].tid = t /\ trace_stream[t][j].what \in Buffered
           /\ trace_stream[t][j].time \in Nat /\ trace_stream[t][j].time < line.time
      /\ \A i \in DOMAIN trace_file : trace_file[i].tid = t =>
           /\ IsRegistered(t) /\ trace_file[i].time < line.time
           /\ \A j \in DOMAIN trace_stream[t] : trace_file[i].time < trace_stream[t][j].time
      /\ line.time > lamport_timestamp[t] /\ line.time \in Nat
  BY WrittenTimes
<1> HIDE DEF end
<1> SUFFICES ASSUME NEW i \in DOMAIN trace_file'
             PROVE  Contract!MayFollow(SubSeq(trace_file', 1, i - 1), trace_file'[i])
  BY DEF MergeContract, Contract!WellFormed
<1> DEFINE before == SubSeq(trace_file', 1, i - 1)
<1>3. /\ before \in Seq(Lines) /\ DOMAIN before = 1 .. i - 1 /\ trace_file'[i] \in Lines
      /\ i \in Nat
      /\ \A k \in DOMAIN before : k \in DOMAIN trace_file' /\ before[k] = trace_file'[k] /\ k < i
      /\ \A k \in DOMAIN trace_file : i \notin DOMAIN trace_file => k \in DOMAIN before
  <2>1. /\ before \in Seq(Lines) /\ DOMAIN before = 1 .. i - 1
        /\ \A k \in 1 .. i - 1 : k \in DOMAIN trace_file' /\ before[k] = trace_file'[k]
    BY <1>1, Before
  <2>2. trace_file'[i] \in Lines /\ i \in Nat
    BY <1>1, FileLines
  <2> HIDE DEF before
  <2>3. ASSUME NEW k \in DOMAIN trace_file, i \notin DOMAIN trace_file PROVE k \in 1 .. i - 1
    <3>1. trace_file \in Seq(Lines) /\ DOMAIN trace_file = 1 .. Len(trace_file)
      BY FileTypes, LenProperties
    <3> QED BY <1>1, <2>2, <2>3, <3>1
  <2> QED BY <2>1, <2>2, <2>3
<1>4. CASE i \in DOMAIN trace_file
  <2> DEFINE old == SubSeq(trace_file, 1, i - 1)
  <2>1. /\ old \in Seq(Lines) /\ DOMAIN old = 1 .. i - 1
        /\ \A k \in 1 .. i - 1 : k \in DOMAIN trace_file /\ old[k] = trace_file[k]
    BY <1>4, FileTypes, Before
  <2>2. \A k \in 1 .. i - 1 : before[k] = old[k]
    BY <1>1, <1>3, <2>1
  <2>3. Contract!MayFollow(old, trace_file[i])
    BY <1>4 DEF FileInv, MergeContract, Contract!WellFormed
  <2> HIDE DEF before, old
  <2>4. before = old
    <3>1. Len(before) = Len(old) /\ 1 .. Len(before) = 1 .. i - 1
      BY <1>3, <2>1, LenProperties
    <3> QED BY <1>3, <2>1, <2>2, <3>1, SeqEqual
  <2>5. trace_file'[i] = trace_file[i]
    BY <1>1, <1>4
  <2> QED BY <2>3, <2>4, <2>5 DEF before
<1>5. ASSUME i \notin DOMAIN trace_file, trace_file'[i].tid = t, IsRegistered(t), ~Closed(t),
             trace_file'[i].what # "tr"
      PROVE  Contract!MayFollow(before, trace_file'[i])
  <2> DEFINE this == trace_file'[i]
  <2>1. PICK r \in DOMAIN trace_file : OnlyLine(r, t, "tr")
    BY <1>5 DEF FileInv, RegisterLines
  <2>2. /\ r \in DOMAIN before /\ before[r].tid = t /\ before[r].what = "tr"
        /\ trace_file[r].time \in Nat /\ trace_file[r].time < this.time
    BY <1>1, <1>2, <1>3, <1>5, <2>1 DEF OnlyLine
  <2>3. this.time > 0 /\ this.tid # Unregistered
    <3>1. this \in Lines /\ this.time \in Nat
      BY <1>3 DEF Lines
    <3> QED BY <1>5, <2>2, <3>1
  <2>4. ASSUME NEW k \in DOMAIN before, before[k].tid = t
        PROVE  /\ before[k].time < this.time /\ before[k].what # "tf"
               /\ before[k].what = "tr" => k = r
    <3>1. CASE k \in DOMAIN trace_file
      <4>1. before[k] = trace_file[k]
        BY <1>1, <1>3, <3>1
      <4>2. trace_file[k].what # "tf" /\ (trace_file[k].what = "tr" => k = r)
        BY <1>5, <2>1, <2>4, <3>1, <4>1 DEF FileInv, FinishLines, OnlyLine
      <4>3. trace_file[k].time < this.time
        BY <1>1, <1>2, <1>5, <2>4, <3>1, <4>1
      <4> QED BY <4>1, <4>2, <4>3
    <3>2. CASE k \notin DOMAIN trace_file
      <4>1. k < i /\ i <= end /\ k \in Nat /\ k # end
        BY <1>1, <1>3
      <4>2. PICK j \in DOMAIN trace_stream[t] :
              k = Len(trace_file) + j /\ before[k] = trace_stream[t][j]
        <5>1. k \in DOMAIN trace_file' /\ before[k] = trace_file'[k]
          BY <1>3
        <5> QED BY <1>1, <3>2, <4>1, <5>1
      <4>3. before[k].what \in Buffered
        BY <1>2, <4>2
      <4>4. before[k].time < this.time
        <5>1. CASE i = end
          BY <1>1, <1>2, <4>2, <5>1
        <5>2. CASE i # end
          <6>1. PICK m \in DOMAIN trace_stream[t] :
                  i = Len(trace_file) + m /\ this = trace_stream[t][m]
            BY <1>1, <1>5, <5>2
          <6>2. j < m
            <7>1. Len(trace_file) \in Nat /\ DOMAIN trace_stream[t] = 1 .. Len(trace_stream[t])
              BY FileTypes, LenProperties
            <7> QED BY <4>1, <4>2, <6>1, <7>1
          <6> QED BY <4>2, <6>1, <6>2, ZenonT(60) DEF FileInv, StreamInv
        <5> QED BY <5>1, <5>2
      <4> QED BY <4>3, <4>4 DEF Buffered
    <3> QED BY <3>1, <3>2
  <2> HIDE DEF this, before
  <2>5. this \in Lines /\ this.tid = t /\ this.what # "tr"
    BY <1>3, <1>5 DEF this
  <2>6. /\ \A k \in DOMAIN before : before[k].tid = this.tid =>
             before[k].time < this.time /\ before[k].what # "tf"
        /\ \A k \in DOMAIN before : before[k].tid = this.tid /\ before[k].what = "tr" => k = r
        /\ before[r].tid = this.tid
    BY <2>2, <2>4, <2>5
  <2>7. before \in Seq(Lines)
    BY <1>3
  <2>8. Contract!MayFollow(before, this)
    BY <2>2, <2>3, <2>5, <2>6, <2>7, OwnLineFollows
  <2> QED BY <2>8 DEF this
<1>6. CASE i \notin DOMAIN trace_file /\ i # end
  BY <1>1, <1>2, <1>5, <1>6 DEF Buffered
<1>7. CASE i \notin DOMAIN trace_file /\ i = end /\ IsRegistered(t)
  BY <1>1, <1>5, <1>7 DEF NewLine
<1>8. CASE i \notin DOMAIN trace_file /\ i = end /\ ~IsRegistered(t)
  <2>1. /\ \A k \in DOMAIN trace_file : trace_file[k].time < line.time
        /\ line.tid = Unregistered \/ (line.what = "tr" /\ line.tid = t)
    BY <1>8 DEF NewLine
  <2>2. ASSUME NEW k \in DOMAIN before
        PROVE  before[k].time < line.time /\ ~(before[k].tid = line.tid /\ before[k].what = "tr")
    <3>1. k \in DOMAIN trace_file /\ before[k] = trace_file[k]
      <4>1. k \in DOMAIN trace_file' /\ before[k] = trace_file'[k] /\ k # end
        BY <1>1, <1>3, <1>8
      <4>2. DOMAIN trace_stream[t] = {}
        BY <1>2, <1>8
      <4> QED BY <1>1, <4>1, <4>2
    <3>2. line.tid = Unregistered /\ trace_file[k].tid = line.tid => trace_file[k].what # "tr"
      BY <3>1 DEF FileInv, RegisterLines
    <3> QED BY <1>2, <1>8, <2>1, <3>1, <3>2
  <2>3. line.time > 0
    BY <1>2
  <2> HIDE DEF before
  <2>4. Contract!MayFollow(before, line)
    BY <1>3, <2>1, <2>2, <2>3, LaterLineFollows
  <2> QED BY <1>1, <1>8, <2>4 DEF before
<1> QED BY <1>4, <1>6, <1>7, <1>8

\* A step of the pintool keeps what is said of the file.
LEMMA FileInvStep ==
  ASSUME TypeInv, TypeInv', Registration, FileInv, FileStep
  PROVE  FileInv'
<1>1. CASE /\ UNCHANGED <<trace_file, trace_stream, user_threadid>>
           /\ \A t \in Threads : Closed(t)' /\ IsRegistered(t) => Closed(t)
  BY <1>1, SameKeeps
<1>2. ASSUME NEW t \in Threads, NEW line \in Lines, NewLine(t, line),
             Adds(t, line) \/ Writes(t, line),
             \A u \in Threads :
               Closed(u)' /\ IsRegistered(u)' => Closed(u) \/ (u = t /\ line.what = "tf")
      PROVE  FileInv'
  BY <1>2, AddsKeeps, WritesKeeps, WritesBarrier, WritesContract DEF FileInv
<1> QED BY <1>1, <1>2 DEF FileStep

(***************************************************************************)
(* The steps of the pintool, one kind after the other                      *)
(***************************************************************************)
\* A step of one thread that neither moves its clock nor makes a line.
OwnStep(t) ==
  /\ UNCHANGED <<trace_file, trace_stream, lamport_timestamp, mutexes, globals>>
  /\ pc[t] \in Running
  /\ \E v \in Running \ {"execute"} :
       pc' = [pc EXCEPT ![t] = v] /\ (v \in Accessing => IsRegistered(t))
  /\ \E v \in Ops : op' = [op EXCEPT ![t] = v]
  /\ \E v \in Nat : time' = [time EXCEPT ![t] = v]
  /\ \/ UNCHANGED performed
     \/ pc[t] = "execute" /\ performed' = [performed EXCEPT ![t] = time[t]]

\* A line of one thread, made under its own lock.
TracedStep(t, line) ==
  /\ UNCHANGED <<mutexes, globals>>
  /\ pc[t] \in Running /\ t \notin thread_lock /\ IsRegistered(t)
  /\ line.tid = t /\ line.what \in Buffered /\ line.time > lamport_timestamp[t]
  /\ \E v \in Running : pc' = [pc EXCEPT ![t] = v]
  /\ \E v \in Ops : op' = [op EXCEPT ![t] = v]
  /\ time' = [time EXCEPT ![t] = line.time]
  /\ lamport_timestamp' = [lamport_timestamp EXCEPT ![t] = line.time]
  /\ \/ UNCHANGED performed
     \/ performed' = [performed EXCEPT ![t] = line.time]
  /\ \/ /\ trace_stream' = [trace_stream EXCEPT ![t] = Append(trace_stream[t], line)]
        /\ UNCHANGED trace_file
     \/ /\ trace_file' = trace_file \o Append(trace_stream[t], line)
        /\ trace_stream' = [trace_stream EXCEPT ![t] = <<>>]

\* What touch_buffer does to the buffer and the file.
LEMMA TouchWrites ==
  ASSUME NEW t \in Threads, NEW line, NEW force \in BOOLEAN, TouchBuffer(t, line, force)
  PROVE  /\ lamport_timestamp' = [lamport_timestamp EXCEPT ![t] = line.time]
         /\ \/ /\ trace_stream' = [trace_stream EXCEPT ![t] = Append(trace_stream[t], line)]
               /\ UNCHANGED trace_file /\ ~force
            \/ /\ trace_file' = trace_file \o Append(trace_stream[t], line)
               /\ trace_stream' = [trace_stream EXCEPT ![t] = <<>>]
  BY DEF TouchBuffer, WithLine, file

LEMMA FileSteps ==
  ASSUME Cooperative, TypeInv, Registration, [Next]_vars
  PROVE  \/ UNCHANGED vars
         \/ \E t, u \in Threads : Create(t, u)
         \/ \E t \in Threads : OwnStep(t)
         \/ \E t \in Threads, line \in Lines : TracedStep(t, line)
         \/ \E t \in Threads : Inside(t)
<1> USE DEF HasStartFini, SyncPlaces, Places, Running, Ops, SyncOps, Accessing
<1> /\ pc \in [Threads -> Places] /\ op \in [Threads -> Ops] /\ time \in [Threads -> Nat]
    /\ lamport_timestamp \in [Threads -> Nat]
  BY DEF TypeInv, TypeOK
<1>1. ASSUME NEW t \in Threads, pc[t] \in Accessing PROVE IsRegistered(t)
  BY <1>1 DEF Registration
<1>2. ASSUME NEW t \in Threads, IsRegistered(t) PROVE user_threadid[t] = t
  BY <1>2 DEF Registration, IsRegistered
<1>a. ASSUME NEW t \in Threads, UNCHANGED op PROVE \E v \in Ops : op' = [op EXCEPT ![t] = v]
  <2>1. op[t] \in Ops /\ op' = [op EXCEPT ![t] = op[t]]
    BY <1>a
  <2> HIDE DEF Ops
  <2> QED BY <2>1
<1>b. ASSUME NEW t \in Threads, UNCHANGED time PROVE \E v \in Nat : time' = [time EXCEPT ![t] = v]
  <2>1. time[t] \in Nat /\ time' = [time EXCEPT ![t] = time[t]]
    BY <1>b
  <2> QED BY <2>1
<1>3. ASSUME NEW t \in Threads, NEW kind \in {"access", "cas"}, NEW F \in Footprints,
             MemoryAccessHeader(t, kind, F)
      PROVE  OwnStep(t)
  <2>1. IsRegistered(t) /\ pc[t] = "app" /\ pc' = [pc EXCEPT ![t] = "acquire"]
    BY <1>3 DEF MemoryAccessHeader, Does, Idle, TracesAccess, IsRegistered
  <2>2. /\ UNCHANGED <<trace_file, trace_stream, lamport_timestamp, mutexes, globals, performed>>
        /\ op' = [op EXCEPT ![t] = kind] /\ time' = [time EXCEPT ![t] = 0]
    BY <1>3 DEF MemoryAccessHeader, buffers, file, history
  <2> QED BY <2>1, <2>2 DEF OwnStep
<1>4. ASSUME NEW t \in Threads, Fault(t) \/ Execute(t) \/ ExecuteCAS(t) PROVE OwnStep(t)
  <2>1. /\ pc[t] \in {"execute", "cas"} /\ IsRegistered(t)
        /\ \E v \in {"ctxt", "app", "cas_footer"} : pc' = [pc EXCEPT ![t] = v]
    BY <1>1, <1>4 DEF Fault, Execute, ExecuteCAS
  <2>2. /\ UNCHANGED <<op, time, trace_file, trace_stream, lamport_timestamp, mutexes, globals>>
        /\ \/ UNCHANGED performed
           \/ pc[t] = "execute" /\ performed' = [performed EXCEPT ![t] = time[t]]
    BY <1>4 DEF Fault, Execute, ExecuteCAS, buffers, file, history
  <2> QED BY <1>a, <1>b, <2>1, <2>2 DEF OwnStep
<1>5. ASSUME NEW t \in Threads, ReleaseAddressLock(t) PROVE OwnStep(t)
  <2>1. pc[t] \in {"app", "ctxt"} /\ pc' = [pc EXCEPT ![t] = pc[t]]
        /\ (pc[t] = "ctxt" => IsRegistered(t))
    BY <1>1, <1>5 DEF ReleaseAddressLock, control
  <2>2. UNCHANGED <<op, time, trace_file, trace_stream, lamport_timestamp, mutexes, globals, performed>>
    BY <1>5 DEF ReleaseAddressLock, control, buffers, file, history
  <2> QED BY <1>a, <1>b, <2>1, <2>2 DEF OwnStep
<1>6. ASSUME NEW t \in Threads, AcquireAddressLock(t) PROVE OwnStep(t)
  <2>1. /\ \E v \in {"acquire", "cas", "footer"} : pc' = [pc EXCEPT ![t] = v]
        /\ \E l \in Awaited(t) : time' = [time EXCEPT ![t] = Later(@, address_timestamp[l])]
        /\ pc[t] = "acquire" /\ IsRegistered(t)
    BY <1>1, <1>6 DEF AcquireAddressLock
  <2>2. \E v \in Nat : time' = [time EXCEPT ![t] = v]
    BY <2>1 DEF Later, Awaited, TypeInv, TypeOK
  <2>3. UNCHANGED <<op, trace_file, trace_stream, lamport_timestamp, mutexes, globals, performed>>
    BY <1>6 DEF AcquireAddressLock, buffers, file, history
  <2> QED BY <1>a, <2>1, <2>2, <2>3 DEF OwnStep
<1>7. ASSUME NEW t \in Threads, NEW kind \in {"function", "ctxt"}, NEW line \in Lines,
             line.time > lamport_timestamp[t], pc[t] \in {"app", "ctxt"},
             line.tid = t, line.what \in Buffered, IsRegistered(t), TraceLocally(t, kind, line)
      PROVE  TracedStep(t, line)
  <2>1. \E v \in {"paused", "app"} : pc' = [pc EXCEPT ![t] = v]
    BY <1>7 DEF TraceLocally
  <2>2. /\ TouchBuffer(t, line, FALSE) /\ t \notin thread_lock
        /\ op' = [op EXCEPT ![t] = kind] /\ time' = [time EXCEPT ![t] = line.time]
        /\ UNCHANGED <<mutexes, globals, performed>>
    BY <1>7 DEF TraceLocally, OwnLockFree, history
  <2> QED BY <1>7, <2>1, <2>2, TouchWrites DEF TracedStep
<1>8. ASSUME NEW t \in Threads, FunctionRegistered(t)
      PROVE  \E line \in Lines : TracedStep(t, line)
  <2> DEFINE line == Line(lamport_timestamp[t] + 1, user_threadid[t], "f")
  <2>1. /\ line \in Lines /\ pc[t] = "app" /\ IsRegistered(t)
        /\ TraceLocally(t, "function", line)
    BY <1>8, LineTypes DEF FunctionRegistered, Does, Idle, IsRegistered, TypeInv
  <2>2. line.time > lamport_timestamp[t] /\ line.tid = t /\ line.what \in Buffered
    BY <1>2, <2>1 DEF Line, Buffered
  <2> HIDE DEF line
  <2> QED BY <1>7, <2>1, <2>2
<1>9. ASSUME NEW t \in Threads, ContextChange(t)
      PROVE  \E line \in Lines : TracedStep(t, line)
  <2> DEFINE line == Line(lamport_timestamp[t] + 1, user_threadid[t], "ctxt_change")
  <2>1. line \in Lines /\ pc[t] \in {"app", "ctxt"} /\ TraceLocally(t, "ctxt", line)
    BY <1>9, LineTypes DEF ContextChange, Does, Idle, TypeInv
  <2>2. IsRegistered(t)
    <3>1. pc[t] = "app" => ~RegisterThreads
      BY <1>9 DEF ContextChange, Does, Cooperative
    <3> QED BY <1>1, <2>1, <3>1 DEF Registration
  <2>3. line.time > lamport_timestamp[t] /\ line.tid = t /\ line.what \in Buffered
    BY <1>2, <2>2 DEF Line, Buffered
  <2> HIDE DEF line
  <2> QED BY <1>7, <2>1, <2>2, <2>3
<1>10. ASSUME NEW t \in Threads, Footer(t) \/ CASFooter(t)
       PROVE  \E line \in Lines : TracedStep(t, line)
  <2> DEFINE line == Line(AccessTime(t), user_threadid[t], "m")
  <2>1. /\ \E v \in {"paused", "execute", "app"} : pc' = [pc EXCEPT ![t] = v]
        /\ pc[t] \in {"footer", "cas_footer"} /\ t \notin thread_lock /\ IsRegistered(t)
        /\ TouchBuffer(t, line, FALSE)
        /\ UNCHANGED <<op, mutexes, globals>>
    BY <1>1, <1>10 DEF Footer, CASFooter, AfterTouch, Resume, OwnLockFree
  <2>2. /\ line \in Lines /\ line.tid = t /\ line.what \in Buffered
        /\ line.time = AccessTime(t) /\ line.time > lamport_timestamp[t]
    <3>1. line \in Lines /\ line.time = AccessTime(t)
      BY LineTypes DEF Line, TypeInv
    <3>2. AccessTime(t) > lamport_timestamp[t]
      BY DEF AccessTime, Later
    <3> QED BY <1>2, <2>1, <3>1, <3>2 DEF Line, Buffered
  <2>3. /\ time' = [time EXCEPT ![t] = line.time]
        /\ \/ UNCHANGED performed
           \/ performed' = [performed EXCEPT ![t] = line.time]
    BY <1>10, <2>2 DEF Footer, CASFooter, history
  <2>4. \E v \in Ops : op' = [op EXCEPT ![t] = v]
    BY <1>a, <2>1
  <2>5. \E v \in Running : pc' = [pc EXCEPT ![t] = v] /\ pc[t] \in Running
    BY <2>1
  <2> HIDE DEF line, Running, Ops
  <2> QED BY <2>1, <2>2, <2>3, <2>4, <2>5, TouchWrites DEF TracedStep
<1>11. CASE Terminated
  BY <1>11 DEF Terminated
<1> QED
  BY <1>3, <1>4, <1>5, <1>6, <1>8, <1>9, <1>10, <1>11 DEF Next, Choice, Continue, Inside

LEMMA ControlInvInit == Init => ControlInv
<1> SUFFICES ASSUME Init PROVE ControlInv
  OBVIOUS
<1>1. \A t \in Threads : /\ pc[t] = IF t = Main THEN "created" ELSE "unstarted"
                         /\ user_threadid[t] = Unregistered
  BY DEF Init
<1>2. Registration
  BY <1>1 DEF Registration, IsRegistered, PostBody, Accessing
<1> QED BY <1>1, <1>2 DEF ControlInv, MainFirst, MainLast, SyncPlaces

\* A step that moves one thread from its own code to its own code.
LEMMA ControlInvLocal ==
  ASSUME TypeInv, ControlInv, NEW t \in Threads, pc[t] \in Running, UNCHANGED user_threadid,
         NEW v \in Running, pc' = [pc EXCEPT ![t] = v], v \in Accessing => IsRegistered(t),
         NEW w \in Ops, op' = [op EXCEPT ![t] = w]
  PROVE  ControlInv'
<1> USE DEF Running, HasStartFini, SyncPlaces, PostBody, IsRegistered
<1> pc \in [Threads -> Places] /\ op \in [Threads -> Ops] /\ Main \in Threads
  BY DEF TypeInv, TypeOK
<1>1. pc'[t] \in Running /\ \A u \in Threads \ {t} : pc'[u] = pc[u] /\ op'[u] = op[u]
  OBVIOUS
<1>2. Registration'
  BY <1>1 DEF ControlInv, Registration, Accessing
<1>3. MainFirst' /\ MainLast'
  BY <1>1 DEF ControlInv, MainFirst, MainLast
<1> QED BY <1>2, <1>3 DEF ControlInv

LEMMA ControlInvInside ==
  ASSUME Cooperative, TypeInv, SyncOwner, LockInv, ClockInv, ControlInv,
         NEW t \in Threads, Inside(t)
  PROVE  ControlInv'
<1> USE DEF IsRegistered
<1> /\ pc \in [Threads -> Places] /\ op \in [Threads -> Ops] /\ Main \in Threads
    /\ user_threadid \in [Threads -> Threads \cup {Unregistered}]
  BY DEF TypeInv, TypeOK
<1>1. ASSUME NEW kind \in SyncOps, EnterSync(t, kind) PROVE ControlInv'
  <2>1. /\ op' = [op EXCEPT ![t] = kind] /\ UNCHANGED user_threadid
        /\ \E v \in {"leave", "body", "take"} :
             /\ pc' = [pc EXCEPT ![t] = v]
             /\ v = "leave" <=> ~Synchronises(t, kind)
        /\ MayEnter(t, kind)
    BY <1>1 DEF EnterSync, globals
  <2>2. /\ IF kind = "start" THEN pc[t] = "created" ELSE pc[t] = "app"
        /\ kind \in {"register", "unregistered_function"} => user_threadid[t] = Unregistered
        /\ kind = "fini" /\ t = Main =>
             \A u \in Threads \ {Main} : pc[u] \in {"unstarted", "finished"}
    BY <2>1 DEF MayEnter, Does, Idle, MayFinish, Cooperative
  <2>3. Registration'
    <3>1. /\ kind = "start" => user_threadid[t] = Unregistered
          /\ pc[t] = "app" => RegisterThreads \/ user_threadid[t] # Unregistered
      BY <2>2 DEF ControlInv, Registration
    <3>2. /\ pc'[t] \in {"body", "take"} => Synchronises(t, kind)
          /\ kind = "start" /\ pc'[t] = "leave" => RegisterThreads
          /\ pc'[t] \in {"leave", "body", "take"} /\ op'[t] = kind
          /\ \A u \in Threads \ {t} : pc'[u] = pc[u] /\ op'[u] = op[u]
      BY <2>1 DEF Synchronises
    <3> QED BY <2>1, <2>2, <3>1, <3>2
        DEF ControlInv, Registration, Synchronises, PostBody, Accessing
  <2>4. MainFirst' /\ MainLast'
    BY <2>1, <2>2 DEF ControlInv, MainFirst, MainLast, SyncPlaces
  <2> QED BY <2>3, <2>4 DEF ControlInv
<1>2. ASSUME PausedLock(t) \/ Restart(t) PROVE FALSE
  BY <1>2 DEF PausedLock, Restart, LockInv
<1>3. ASSUME UNCHANGED <<op, user_threadid>>, NEW v \in SyncPlaces \cup {"app"},
             pc' = [pc EXCEPT ![t] = v], pc[t] \in SyncPlaces,
             pc[t] \in {"take", "body"} => v \in {"take", "body"},
             v \in {"take", "body"} => pc[t] \in {"take", "body"},
             v \in PostBody => pc[t] \in PostBody,
             v = "app" => op[t] # "fini"
      PROVE  ControlInv'
  <2>1. Registration'
    BY <1>3 DEF ControlInv, Registration, Accessing, SyncPlaces, PostBody
  <2>2. MainFirst' /\ MainLast'
    BY <1>3 DEF ControlInv, MainFirst, MainLast, SyncPlaces
  <2> QED BY <2>1, <2>2 DEF ControlInv
<1>4. ASSUME NEW u \in Threads, FlushOther(t, u) PROVE ControlInv'
  <2>1. pc[t] = "flush_all"
    BY <1>4 DEF FlushOther, LockInv
  <2>2. \E v \in {"flush_all", "leave", "release"} : pc' = [pc EXCEPT ![t] = v]
    <3>1. pc'[t] \in {"flush_all", "leave", "release"}
      BY <1>4, <2>1 DEF FlushOther, AfterFlush
    <3>2. pc' = [pc EXCEPT ![t] = pc'[t]]
      BY <1>4 DEF FlushOther
    <3> QED BY <3>1, <3>2
  <2>3. UNCHANGED <<op, user_threadid>>
    BY <1>4 DEF FlushOther, globals
  <2> QED BY <1>3, <2>1, <2>2, <2>3 DEF SyncPlaces, PostBody
<1>5. ASSUME TakeThreadLock(t) PROVE ControlInv'
  <2>1. /\ pc[t] = "take" /\ UNCHANGED <<op, user_threadid>>
        /\ \E v \in {"take", "body"} : pc' = [pc EXCEPT ![t] = v]
    BY <1>5 DEF TakeThreadLock, globals
  <2> QED BY <1>3, <2>1 DEF SyncPlaces, PostBody
<1>6. ASSUME SyncBody(t) PROVE ControlInv'
  <2>1. /\ pc[t] = "body" /\ UNCHANGED op
        /\ user_threadid' = IF op[t] \in {"start", "register"}
                            THEN [user_threadid EXCEPT ![t] = t] ELSE user_threadid
        /\ \E v \in {"flush_all", "leave", "release"} : pc' = [pc EXCEPT ![t] = v]
    BY <1>6 DEF SyncBody, AfterFlush
  <2>2. t # Unregistered
    BY DEF Unregistered
  <2>3. Registration'
    BY <2>1, <2>2 DEF ControlInv, Registration, Accessing, PostBody
  <2>4. MainFirst' /\ MainLast'
    BY <2>1 DEF ControlInv, MainFirst, MainLast, SyncPlaces
  <2> QED BY <2>3, <2>4 DEF ControlInv
<1>7. ASSUME ReleaseThreadLock(t) PROVE ControlInv'
  <2>1. /\ pc[t] = "release" /\ UNCHANGED <<op, user_threadid>>
        /\ \E v \in {"leave", "release"} : pc' = [pc EXCEPT ![t] = v]
    BY <1>7 DEF ReleaseThreadLock, globals
  <2> QED BY <1>3, <2>1 DEF SyncPlaces, PostBody
<1>8. ASSUME StartThread(t) \/ LeaveSync(t) PROVE ControlInv'
  <2>1. /\ pc[t] = "leave" /\ op[t] # "fini" /\ UNCHANGED <<op, user_threadid>>
        /\ pc' = [pc EXCEPT ![t] = "app"]
    BY <1>8 DEF StartThread, LeaveSync, globals
  <2> QED BY <1>3, <2>1 DEF SyncPlaces, PostBody
<1>9. ASSUME FinishThread(t) PROVE ControlInv'
  <2>1. /\ pc[t] = "leave" /\ op[t] = "fini" /\ UNCHANGED <<op, user_threadid>>
        /\ pc' = [pc EXCEPT ![t] = "finished"]
    BY <1>9 DEF FinishThread
  <2>2. Registration'
    BY <2>1 DEF ControlInv, Registration, Accessing, PostBody
  <2>3. MainFirst' /\ MainLast'
    BY <2>1 DEF ControlInv, MainFirst, MainLast, SyncPlaces
  <2> QED BY <2>2, <2>3 DEF ControlInv
<1> QED BY <1>1, <1>2, <1>4, <1>5, <1>6, <1>7, <1>8, <1>9 DEF Inside

LEMMA ControlInvStep ==
  ASSUME Cooperative, TypeInv, SyncOwner, LockInv, ClockInv, ControlInv, [Next]_vars
  PROVE  ControlInv'
<1> USE DEF IsRegistered
<1>1. CASE UNCHANGED vars
  BY <1>1 DEF vars, control, globals, ControlInv, Registration, MainFirst, MainLast
<1>2. ASSUME NEW t \in Threads, NEW u \in Threads, Create(t, u) PROVE ControlInv'
  <2>1. /\ pc[u] = "unstarted" /\ pc[t] = "app" /\ pc' = [pc EXCEPT ![u] = "created"]
        /\ UNCHANGED <<op, user_threadid>> /\ pc \in [Threads -> Places] /\ Main \in Threads
    BY <1>2 DEF Create, Idle, globals, TypeInv, TypeOK
  <2>2. Registration'
    BY <2>1 DEF ControlInv, Registration, PostBody, Accessing
  <2>3. MainFirst' /\ MainLast'
    BY <2>1 DEF ControlInv, MainFirst, MainLast, SyncPlaces
  <2> QED BY <2>2, <2>3 DEF ControlInv
<1>3. ASSUME NEW t \in Threads, OwnStep(t) PROVE ControlInv'
  BY <1>3, ControlInvLocal DEF OwnStep, globals
<1>4. ASSUME NEW t \in Threads, NEW line \in Lines, TracedStep(t, line) PROVE ControlInv'
  BY <1>4, ControlInvLocal DEF TracedStep, globals
<1> QED BY <1>1, <1>2, <1>3, <1>4, FileSteps, ControlInvInside DEF ControlInv

LEMMA TimesInvInit == Init => TimesInv
<1> SUFFICES ASSUME Init PROVE TimesInv
  OBVIOUS
<1>1. \A t \in Threads : /\ pc[t] \in {"created", "unstarted"}
                         /\ performed[t] = 0 /\ lamport_timestamp[t] = 0
  BY DEF Init
<1> QED BY <1>1 DEF TimesInv, SyncClock, FiniClock, LastAccessClock, PostBody

LEMMA TimesInvStep ==
  ASSUME Cooperative, TypeInv, TypeInv', SyncOwner, LockInv, ClockInv, ControlInv, Advance,
         TimesInv, [Next]_vars
  PROVE  TimesInv'
<1> USE DEF IsRegistered, PostBody
<1> /\ pc \in [Threads -> Places] /\ op \in [Threads -> Ops] /\ time \in [Threads -> Nat]
    /\ lamport_timestamp \in [Threads -> Nat] /\ performed \in [Threads -> Nat]
  BY DEF TypeInv, TypeOK
<1> lamport_timestamp' \in [Threads -> Nat]
  BY DEF TypeInv, TypeOK
<1> \A s \in Threads : lamport_timestamp[s] \in Nat /\ lamport_timestamp'[s] \in Nat
                       /\ performed[s] \in Nat /\ time[s] \in Nat
                       /\ lamport_timestamp'[s] >= lamport_timestamp[s]
  BY DEF Advance
<1>a. ASSUME NEW t \in Threads, pc[t] \in HasStartFini
      PROVE  \A s \in Threads \ {t} : pc[s] \notin HasStartFini
  BY <1>a DEF SyncOwner
<1>b. ASSUME UNCHANGED performed, \A s \in Threads : pc'[s] = "execute" =>
                                    pc[s] = "execute" /\ time'[s] = time[s]
      PROVE  LastAccessClock'
  <2> SUFFICES ASSUME NEW s \in Threads
               PROVE  /\ performed'[s] <= lamport_timestamp'[s]
                      /\ pc'[s] = "execute" => time'[s] <= lamport_timestamp'[s]
    BY DEF LastAccessClock
  <2>1. performed[s] <= lamport_timestamp[s] /\ (pc[s] = "execute" => time[s] <= lamport_timestamp[s])
    BY DEF TimesInv, LastAccessClock
  <2> QED BY <1>b, <2>1
<1>1. CASE UNCHANGED vars
  BY <1>1 DEF vars, control, buffers, globals, history, TimesInv, SyncClock, FiniClock, LastAccessClock
<1>2. ASSUME NEW t \in Threads, NEW u \in Threads, Create(t, u) PROVE TimesInv'
  <2>1. /\ pc[u] = "unstarted" /\ pc' = [pc EXCEPT ![u] = "created"]
        /\ UNCHANGED <<op, time, lamport_timestamp, user_threadid, pin_threadid_set, performed>>
    BY <1>2 DEF Create, buffers, globals, history
  <2> QED BY <2>1 DEF TimesInv, SyncClock, FiniClock, LastAccessClock
<1>3. ASSUME NEW t \in Threads, NEW v \in Running, pc[t] \in Running, pc' = [pc EXCEPT ![t] = v],
             UNCHANGED <<user_threadid, pin_threadid_set>>,
             \A s \in Threads \ {t} : /\ op'[s] = op[s] /\ time'[s] = time[s]
                                      /\ lamport_timestamp'[s] = lamport_timestamp[s]
      PROVE  SyncClock' /\ FiniClock'
  <2>1. \A s \in Threads \ {t} : pc'[s] = pc[s]
    BY <1>3
  <2>2. pc'[t] \notin PostBody \cup {"leave"} /\ pc[t] \notin PostBody \cup {"leave"}
    BY <1>3 DEF Running, HasStartFini, SyncPlaces
  <2>3. SyncClock'
    BY <1>3, <2>1, <2>2 DEF TimesInv, SyncClock
  <2>4. FiniClock'
    <3> SUFFICES ASSUME NEW s \in Threads, pc'[s] = "leave", op'[s] = "fini",
                        user_threadid'[s] # Unregistered, NEW u \in pin_threadid_set'
                 PROVE  lamport_timestamp'[u] >= lamport_timestamp'[s]
      BY DEF FiniClock
    <3>1. s # t /\ lamport_timestamp[u] >= lamport_timestamp[s] /\ u \in Threads
      BY <1>3, <2>1, <2>2 DEF TimesInv, FiniClock, TypeInv, TypeOK
    <3> QED BY <1>3, <3>1
  <2> QED BY <2>3, <2>4
<1>4. ASSUME NEW t \in Threads, OwnStep(t) PROVE TimesInv'
  <2>1. PICK v \in Running \ {"execute"} : pc' = [pc EXCEPT ![t] = v]
    BY <1>4 DEF OwnStep
  <2>2. SyncClock' /\ FiniClock'
    BY <1>3, <1>4, <2>1 DEF OwnStep, globals
  <2>3. LastAccessClock'
    <3>1. \A s \in Threads : pc'[s] = "execute" => pc[s] = "execute" /\ time'[s] = time[s]
      BY <1>4, <2>1 DEF OwnStep
    <3>2. CASE UNCHANGED performed
      BY <1>b, <3>1, <3>2
    <3>3. CASE pc[t] = "execute" /\ performed' = [performed EXCEPT ![t] = time[t]]
      BY <1>4, <3>1, <3>3 DEF TimesInv, LastAccessClock, OwnStep
    <3> QED BY <1>4, <3>2, <3>3 DEF OwnStep
  <2> QED BY <2>2, <2>3 DEF TimesInv
<1>5. ASSUME NEW t \in Threads, NEW line \in Lines, TracedStep(t, line) PROVE TimesInv'
  <2>1. PICK v \in Running : pc' = [pc EXCEPT ![t] = v]
    BY <1>5 DEF TracedStep
  <2>2. SyncClock' /\ FiniClock'
    BY <1>3, <1>5, <2>1 DEF TracedStep, globals
  <2>3. LastAccessClock'
    <3>1. line.time \in Nat
      BY DEF Lines
    <3>2. /\ time' = [time EXCEPT ![t] = line.time]
          /\ lamport_timestamp' = [lamport_timestamp EXCEPT ![t] = line.time]
          /\ performed' = performed \/ performed' = [performed EXCEPT ![t] = line.time]
      BY <1>5 DEF TracedStep
    <3> SUFFICES ASSUME NEW s \in Threads
                 PROVE  /\ performed'[s] <= lamport_timestamp'[s]
                        /\ pc'[s] = "execute" => time'[s] <= lamport_timestamp'[s]
      BY DEF LastAccessClock
    <3>3. performed[s] <= lamport_timestamp[s]
          /\ (pc[s] = "execute" => time[s] <= lamport_timestamp[s])
      BY DEF TimesInv, LastAccessClock
    <3>4. CASE s = t
      BY <3>1, <3>2, <3>3, <3>4
    <3>5. CASE s # t
      BY <2>1, <3>2, <3>3, <3>5
    <3> QED BY <3>4, <3>5
  <2> QED BY <2>2, <2>3 DEF TimesInv
<1>6. ASSUME NEW t \in Threads, NEW kind \in SyncOps, EnterSync(t, kind) PROVE TimesInv'
  <2>1. /\ UNCHANGED <<lamport_timestamp, user_threadid, pin_threadid_set, performed>>
        /\ op' = [op EXCEPT ![t] = kind] /\ time' = [time EXCEPT ![t] = 0]
        /\ \E v \in {"leave", "body", "take"} : pc' = [pc EXCEPT ![t] = v]
        /\ pc'[t] = "leave" /\ kind = "fini" => user_threadid[t] = Unregistered
    BY <1>6 DEF EnterSync, Synchronises, buffers, globals, history
  <2>2. LastAccessClock'
    BY <1>b, <2>1
  <2>3. SyncClock' /\ FiniClock'
    BY <2>1 DEF TimesInv, SyncClock, FiniClock
  <2> QED BY <2>2, <2>3 DEF TimesInv
<1>7. ASSUME NEW t \in Threads, PausedLock(t) \/ Restart(t) PROVE FALSE
  BY <1>7 DEF PausedLock, Restart, LockInv
<1>8. ASSUME NEW t \in Threads, NEW u \in Threads, FlushOther(t, u) PROVE TimesInv'
  <2>1. pc[t] = "flush_all" /\ taken = pin_threadid_set
    BY <1>8 DEF FlushOther, LockInv
  <2>2. /\ pc' = [pc EXCEPT ![t] = pc'[t]]
        /\ pc'[t] \in {"flush_all", "leave", "release"}
        /\ pc'[t] = "leave" => pin_threadid_set = {}
    BY <1>8, <2>1 DEF FlushOther, AfterFlush
  <2>3. UNCHANGED <<op, time, user_threadid, pin_threadid_set, performed>>
    BY <1>8 DEF FlushOther, globals, history
  <2>4. lamport_timestamp'[t] = time[t]
    <3>1. lamport_timestamp[t] = time[t]
      BY <2>1 DEF TimesInv, SyncClock
    <3> QED BY <1>8, <3>1 DEF FlushOther
  <2>5. \A s \in Threads \ {t} : pc[s] \notin HasStartFini /\ pc'[s] = pc[s]
    BY <1>a, <2>1, <2>2 DEF HasStartFini, SyncPlaces
  <2>6. SyncClock' /\ FiniClock'
    BY <2>2, <2>3, <2>4, <2>5 DEF SyncClock, FiniClock, HasStartFini, SyncPlaces
  <2>7. LastAccessClock'
    BY <1>b, <2>2, <2>3
  <2> QED BY <2>6, <2>7 DEF TimesInv
<1>9. ASSUME NEW t \in Threads, TakeThreadLock(t) PROVE TimesInv'
  <2>1. /\ pc[t] = "take"
        /\ UNCHANGED <<op, lamport_timestamp, user_threadid, pin_threadid_set, performed>>
        /\ \E v \in {"take", "body"} : pc' = [pc EXCEPT ![t] = v]
        /\ \A s \in Threads \ {t} : time'[s] = time[s]
    BY <1>9 DEF TakeThreadLock, buffers, globals, history
  <2>2. LastAccessClock'
    BY <1>b, <2>1
  <2> QED BY <2>1, <2>2 DEF TimesInv, SyncClock, FiniClock
<1>10. ASSUME NEW t \in Threads, SyncBody(t) PROVE TimesInv'
  <2>1. /\ pc[t] = "body" /\ taken = pin_threadid_set
        /\ UNCHANGED <<op, pin_threadid_set, performed>>
        /\ time' = [time EXCEPT ![t] = SyncTime(t)]
        /\ pc' = [pc EXCEPT ![t] = pc'[t]]
        /\ pc'[t] \in {"flush_all", "leave", "release"}
        /\ pc'[t] = "leave" => pin_threadid_set = {}
    BY <1>10 DEF SyncBody, AfterFlush, LockInv, mutexes, history
  <2>2. lamport_timestamp' = [lamport_timestamp EXCEPT ![t] = SyncTime(t)]
    BY <1>10 DEF SyncBody, SyncLine, Line, TouchBuffer
  <2>3. \A s \in Threads \ {t} : pc[s] \notin HasStartFini /\ pc'[s] = pc[s]
    BY <1>a, <2>1 DEF HasStartFini, SyncPlaces
  <2>4. SyncClock' /\ FiniClock'
    BY <2>1, <2>2, <2>3 DEF SyncClock, FiniClock, HasStartFini, SyncPlaces
  <2>5. LastAccessClock'
    BY <1>b, <2>1, <2>3
  <2> QED BY <2>4, <2>5 DEF TimesInv
<1>11. ASSUME NEW t \in Threads, ReleaseThreadLock(t) PROVE TimesInv'
  <2> PICK u \in taken :
         /\ lamport_timestamp' = [lamport_timestamp EXCEPT ![u] = ReleasedClock(t, u)]
         /\ pc' = [pc EXCEPT ![t] = IF taken = {u} THEN "leave" ELSE "release"]
    BY <1>11 DEF ReleaseThreadLock
  <2>1. pc[t] = "release" /\ UNCHANGED <<op, time, user_threadid, pin_threadid_set, performed>>
        /\ u \in Threads /\ pin_threadid_set \subseteq Threads
    BY <1>11 DEF ReleaseThreadLock, globals, history, TypeInv, TypeOK
  <2>2. /\ lamport_timestamp'[u] = time[t] /\ lamport_timestamp'[t] = time[t]
        /\ \A s \in Threads \ {u} : lamport_timestamp'[s] = lamport_timestamp[s]
    BY <2>1 DEF ReleasedClock, TimesInv, SyncClock
  <2>3. \A s \in Threads \ {t} : pc[s] \notin HasStartFini /\ pc'[s] = pc[s]
    BY <1>a, <2>1 DEF HasStartFini, SyncPlaces
  <2>4. SyncClock'
    BY <2>1, <2>2, <2>3 DEF SyncClock, HasStartFini, SyncPlaces
  <2>5. FiniClock'
    <3>1. pc'[t] = "leave" => \A w \in pin_threadid_set : lamport_timestamp'[w] >= time[t]
      BY <2>1, <2>2 DEF ClockInv, SyncTimes
    <3> QED BY <2>1, <2>2, <2>3, <3>1 DEF FiniClock, HasStartFini, SyncPlaces
  <2>6. LastAccessClock'
    BY <1>b, <2>1
  <2> QED BY <2>4, <2>5, <2>6 DEF TimesInv
<1>12. ASSUME NEW t \in Threads, StartThread(t) \/ FinishThread(t) \/ LeaveSync(t)
       PROVE  TimesInv'
  <2>1. /\ pc[t] = "leave" /\ UNCHANGED <<op, time, lamport_timestamp, user_threadid, performed>>
        /\ \E v \in {"app", "finished"} : pc' = [pc EXCEPT ![t] = v]
    BY <1>12 DEF StartThread, FinishThread, LeaveSync, buffers, globals, history
  <2>2. \A s \in Threads \ {t} : pc[s] \notin HasStartFini /\ pc'[s] = pc[s]
    BY <1>a, <2>1 DEF HasStartFini, SyncPlaces
  <2>3. LastAccessClock'
    BY <1>b, <2>1
  <2> QED BY <2>1, <2>2, <2>3 DEF TimesInv, SyncClock, FiniClock, HasStartFini, SyncPlaces
<1> QED BY <1>1, <1>2, <1>4, <1>5, <1>6, <1>7, <1>8, <1>9, <1>10, <1>11, <1>12, FileSteps
        DEF Inside, ControlInv

(***************************************************************************)
(* Every step is such a step of the file                                   *)
(***************************************************************************)
PintoolInv ==
  TypeInv /\ SyncOwner /\ LockInv /\ ClockInv /\ ControlInv /\ TimesInv /\ FileInv

\* What the invariants say of the holder of the start/finish lock.
LEMMA InSync ==
  ASSUME PintoolInv, NEW t \in Threads, pc[t] \in SyncPlaces
  PROVE  /\ \A s \in Threads \ {t} : /\ pc[s] \notin HasStartFini
                                     /\ pc[s] \notin PostBody \cup {"leave"}
                                     /\ Closed(s) => pc[s] = "finished"
                                     /\ Bounds(s) => s \in pin_threadid_set
         /\ op[t] \in SyncOps
         /\ t \notin pin_threadid_set => op[t] = "start"
         /\ pc[Main] = "finished" => t = Main
         /\ t # Main /\ op[t] # "start" => Main \in pin_threadid_set
<1> USE DEF HasStartFini, SyncPlaces, PostBody
<1>1. \A s \in Threads \ {t} : pc[s] \notin HasStartFini
  BY DEF PintoolInv, SyncOwner
<1>2. op[t] \in SyncOps
  BY DEF PintoolInv, TypeInv, SyncOpsInSync
<1>3. t \notin pin_threadid_set => op[t] = "start"
  BY DEF PintoolInv, ClockInv, Known
<1>4. pc[Main] = "finished" => t = Main
  BY DEF PintoolInv, ControlInv, MainLast
<1>5. ASSUME t # Main PROVE Main \in pin_threadid_set
  <2>1. Main \in Threads /\ pc[Main] \notin HasStartFini
    BY <1>1, <1>5
  <2>2. pc[Main] \notin {"unstarted", "created", "finished"}
    BY <1>4, <1>5 DEF PintoolInv, ControlInv, MainFirst
  <2> QED BY <2>1, <2>2 DEF PintoolInv, ClockInv, Known
<1>6. \A s \in Threads \ {t} : /\ pc[s] \notin PostBody \cup {"leave"}
                               /\ Closed(s) => pc[s] = "finished"
                               /\ Bounds(s) => s \in pin_threadid_set
  BY <1>1 DEF Closed, Bounds
<1> QED BY <1>1, <1>2, <1>3, <1>4, <1>5, <1>6

\* A step that writes no line and lets nobody go who bounds the file.
LEMMA QuietFileStep ==
  ASSUME Advance, UNCHANGED <<trace_file, trace_stream, user_threadid>>,
         \A t \in Threads :
           /\ Closed(t) => Closed(t)' /\ performed'[t] = performed[t]
           /\ Closed(t)' /\ IsRegistered(t) => Closed(t)
           /\ Bounds(t) => Bounds(t)'
           /\ pc[t] = "finished" => pc'[t] = "finished"
           /\ \A x \in Nat : Pending(t, x) => lamport_timestamp'[t] >= x \/ Pending(t, x)',
         pin_threadid_set \subseteq pin_threadid_set'
  PROVE  FileStep
<1>1. Main \in Threads
  OBVIOUS
<1>2. \A t \in pin_threadid_set : t \in pin_threadid_set' \/ Closed(t)
  OBVIOUS
<1>3. pc'[Main] # "finished" =>
       /\ pc[Main] # "finished"
       /\ \A t \in Threads : Bounds(t) =>
            \E u \in Threads : Bounds(u)' /\ lamport_timestamp'[u] >= lamport_timestamp[t]
  BY <1>1 DEF Advance
<1> QED BY <1>2, <1>3 DEF FileStep

LEMMA OwnFileStep ==
  ASSUME PintoolInv, Advance, NEW t \in Threads, OwnStep(t)
  PROVE  FileStep
<1> USE DEF PostBody, Running, HasStartFini, SyncPlaces
<1>1. /\ UNCHANGED <<trace_file, trace_stream, user_threadid, taken, pin_threadid_set>>
      /\ pc[t] \in Running /\ pc'[t] \in Running
      /\ \A s \in Threads \ {t} :
           /\ pc'[s] = pc[s] /\ op'[s] = op[s] /\ time'[s] = time[s]
           /\ performed'[s] = performed[s]
  <2>1. /\ pc \in [Threads -> Places] /\ op \in [Threads -> Ops] /\ time \in [Threads -> Nat]
        /\ performed \in [Threads -> Nat]
    BY DEF PintoolInv, TypeInv, TypeOK
  <2> HIDE DEF Running
  <2> QED BY <2>1 DEF OwnStep, mutexes, globals
<1>2. ASSUME NEW s \in Threads
      PROVE  /\ Closed(s) => Closed(s)' /\ performed'[s] = performed[s]
             /\ Closed(s)' => Closed(s)
             /\ Bounds(s) => Bounds(s)'
             /\ pc[s] = "finished" => pc'[s] = "finished"
  BY <1>1 DEF Closed, Bounds, IsRegistered
<1>3. ASSUME NEW s \in Threads, NEW x \in Nat, Pending(s, x) PROVE Pending(s, x)'
  BY <1>1, <1>3 DEF Pending
<1> QED BY <1>1, <1>2, <1>3, QuietFileStep

LEMMA CreateFileStep ==
  ASSUME PintoolInv, Advance, NEW t \in Threads, NEW u \in Threads, Create(t, u)
  PROVE  FileStep
<1> USE DEF PostBody
<1>1. /\ UNCHANGED <<trace_file, trace_stream, user_threadid, taken, pin_threadid_set,
                     op, time, performed>>
      /\ pc[u] = "unstarted" /\ pc' = [pc EXCEPT ![u] = "created"] /\ pc \in [Threads -> Places]
  BY DEF Create, mutexes, globals, file, buffers, history, PintoolInv, TypeInv, TypeOK
<1>2. ASSUME NEW s \in Threads
      PROVE  /\ Closed(s) => Closed(s)' /\ performed'[s] = performed[s]
             /\ Closed(s)' => Closed(s)
             /\ Bounds(s) => Bounds(s)'
             /\ pc[s] = "finished" => pc'[s] = "finished"
  BY <1>1 DEF Closed, Bounds, IsRegistered
<1>3. ASSUME NEW s \in Threads, NEW x \in Nat, Pending(s, x) PROVE Pending(s, x)'
  BY <1>1, <1>3 DEF Pending
<1> QED BY <1>1, <1>2, <1>3, QuietFileStep

LEMMA TracedFileStep ==
  ASSUME PintoolInv, Advance, NEW t \in Threads, NEW line \in Lines, TracedStep(t, line)
  PROVE  FileStep
<1> USE DEF PostBody
<1>1. /\ UNCHANGED <<user_threadid, taken, pin_threadid_set>>
      /\ pc[t] \in Running /\ pc'[t] \in Running
      /\ \A s \in Threads \ {t} :
           /\ pc'[s] = pc[s] /\ op'[s] = op[s] /\ time'[s] = time[s]
           /\ performed'[s] = performed[s]
      /\ lamport_timestamp'[t] = line.time
  <2>1. /\ pc \in [Threads -> Places] /\ op \in [Threads -> Ops] /\ time \in [Threads -> Nat]
        /\ performed \in [Threads -> Nat] /\ lamport_timestamp \in [Threads -> Nat]
    BY DEF PintoolInv, TypeInv, TypeOK
  <2> QED BY <2>1 DEF TracedStep, mutexes, globals
<1>2. /\ pc[t] \notin HasStartFini \cup {"unstarted", "created", "finished"}
      /\ pc'[t] \notin HasStartFini \cup {"unstarted", "created", "finished"}
  BY <1>1 DEF Running
<1>3. ASSUME NEW s \in Threads
      PROVE  /\ Closed(s) => Closed(s)' /\ performed'[s] = performed[s]
             /\ Closed(s)' => Closed(s)
             /\ Bounds(s) => Bounds(s)'
             /\ pc[s] = "finished" => pc'[s] = "finished"
  BY <1>1, <1>2 DEF Closed, Bounds, IsRegistered, HasStartFini, SyncPlaces
<1>4. ASSUME NEW s \in Threads, NEW x \in Nat, Pending(s, x) PROVE Pending(s, x)'
  BY <1>1, <1>2, <1>4 DEF Pending, HasStartFini, SyncPlaces
<1>5. t \in pin_threadid_set /\ t \notin taken /\ ~Closed(t) /\ t # Unregistered
  <2>1. t \in pin_threadid_set
    BY <1>2 DEF PintoolInv, ClockInv, Known, HasStartFini
  <2>2. t \notin taken
    BY DEF TracedStep, PintoolInv, LockInv
  <2>3. ~Closed(t)
    BY <1>2 DEF Closed, HasStartFini, SyncPlaces
  <2> QED BY <2>1, <2>2, <2>3 DEF Unregistered
<1>6. line.tid = t /\ line.what \in Buffered /\ line.time > lamport_timestamp[t] /\ IsRegistered(t)
  BY DEF TracedStep
<1>7. NewLine(t, line)
  BY <1>1, <1>5, <1>6 DEF NewLine, Buffered, IsSync
<1>8. Adds(t, line) \/ Writes(t, line)
  <2>1. Bounds(t)' /\ line.time <= lamport_timestamp'[t]
    <3>1. line.time \in Nat
      BY DEF Lines
    <3> QED BY <1>1, <1>5, <1>6, <3>1 DEF Bounds, IsRegistered
  <2> QED BY <1>5, <1>6, <2>1 DEF TracedStep, Adds, Writes
<1>9. pc'[Main] # "finished" =>
       /\ pc[Main] # "finished"
       /\ \A s \in Threads : Bounds(s) =>
            \E u \in Threads : Bounds(u)' /\ lamport_timestamp'[u] >= lamport_timestamp[s]
  <2>1. Main \in Threads
    OBVIOUS
  <2> QED BY <1>3, <2>1 DEF Advance
<1>10. \A s \in Threads : pc'[s] # "finished" =>
       /\ pc[s] # "finished"
       /\ \A x \in Nat : Pending(s, x) => lamport_timestamp'[s] >= x \/ Pending(s, x)'
  BY <1>3, <1>4
<1> QED BY <1>1, <1>3, <1>7, <1>8, <1>9, <1>10 DEF FileStep

\* The steps of the start/finish section that write nothing.
LEMMA SectionFileStep ==
  ASSUME PintoolInv, Advance, NEW t \in Threads,
         \/ \E kind \in SyncOps : EnterSync(t, kind)
         \/ TakeThreadLock(t)
         \/ StartThread(t)
         \/ LeaveSync(t)
  PROVE  FileStep
<1> USE DEF PostBody, HasStartFini, SyncPlaces
<1> /\ pc \in [Threads -> Places] /\ op \in [Threads -> Ops] /\ time \in [Threads -> Nat]
    /\ performed \in [Threads -> Nat] /\ taken \subseteq Threads
    /\ pin_threadid_set \subseteq Threads
  BY DEF PintoolInv, TypeInv, TypeOK
<1>1. ASSUME NEW kind \in SyncOps, EnterSync(t, kind) PROVE FileStep
  <2>1. /\ UNCHANGED <<trace_file, trace_stream, user_threadid, taken, pin_threadid_set, performed>>
        /\ op' = [op EXCEPT ![t] = kind] /\ time' = [time EXCEPT ![t] = 0]
        /\ \E v \in {"leave", "body", "take"} : pc' = [pc EXCEPT ![t] = v]
        /\ pc[t] \in {"app", "created"}
        /\ pc'[t] = "leave" /\ kind = "fini" => user_threadid[t] = Unregistered
    BY <1>1 DEF EnterSync, Synchronises, MayEnter, Does, Idle, buffers, globals, history, file
  <2>2. ASSUME NEW s \in Threads
        PROVE  /\ Closed(s) => Closed(s)' /\ performed'[s] = performed[s]
               /\ Closed(s)' /\ IsRegistered(s) => Closed(s)
               /\ Bounds(s) => Bounds(s)'
               /\ pc[s] = "finished" => pc'[s] = "finished"
    BY <2>1 DEF Closed, Bounds, IsRegistered
  <2>3. ASSUME NEW s \in Threads, NEW x \in Nat, Pending(s, x) PROVE Pending(s, x)'
    BY <2>1, <2>3 DEF Pending
  <2> QED BY <2>1, <2>2, <2>3, QuietFileStep
<1>2. CASE TakeThreadLock(t)
  <2>1. /\ UNCHANGED <<trace_file, trace_stream, user_threadid, pin_threadid_set, op, performed>>
        /\ pc[t] = "take"
        /\ \E v \in {"body", "take"} : pc' = [pc EXCEPT ![t] = v]
    BY <1>2 DEF TakeThreadLock, buffers, globals, history, file
  <2>2. ASSUME NEW s \in Threads
        PROVE  /\ Closed(s) => Closed(s)' /\ performed'[s] = performed[s]
               /\ Closed(s)' /\ IsRegistered(s) => Closed(s)
               /\ Bounds(s) => Bounds(s)'
               /\ pc[s] = "finished" => pc'[s] = "finished"
    BY <2>1 DEF Closed, Bounds, IsRegistered
  <2>3. \A s \in Threads, x \in Nat : ~Pending(s, x)
    BY <2>1, InSync DEF Pending
  <2> QED BY <2>1, <2>2, <2>3, QuietFileStep
<1>3. CASE StartThread(t) \/ LeaveSync(t)
  <2>1. /\ UNCHANGED <<trace_file, trace_stream, user_threadid, op, performed>>
        /\ pc[t] = "leave" /\ op[t] # "fini" /\ pc' = [pc EXCEPT ![t] = "app"]
        /\ pin_threadid_set' \in {pin_threadid_set, pin_threadid_set \cup {t}}
        /\ op[t] = "start" => t \in pin_threadid_set'
    BY <1>3 DEF StartThread, LeaveSync, buffers, globals, history, file
  <2>2. ASSUME NEW s \in Threads
        PROVE  /\ Closed(s) => Closed(s)' /\ performed'[s] = performed[s]
               /\ Closed(s)' /\ IsRegistered(s) => Closed(s)
               /\ Bounds(s) => Bounds(s)'
               /\ pc[s] = "finished" => pc'[s] = "finished"
    BY <2>1 DEF Closed, Bounds, IsRegistered
  <2>3. \A s \in Threads, x \in Nat : ~Pending(s, x)
    BY <2>1, InSync DEF Pending
  <2> QED BY <2>1, <2>2, <2>3, QuietFileStep
<1> QED BY <1>1, <1>2, <1>3

LEMMA ReleaseFileStep ==
  ASSUME PintoolInv, Advance, NEW t \in Threads, ReleaseThreadLock(t)
  PROVE  FileStep
<1> USE DEF PostBody, HasStartFini, SyncPlaces
<1>1. /\ pc \in [Threads -> Places] /\ op \in [Threads -> Ops] /\ time \in [Threads -> Nat]
      /\ lamport_timestamp \in [Threads -> Nat] /\ taken \subseteq Threads
      /\ pin_threadid_set \subseteq Threads
  BY DEF PintoolInv, TypeInv, TypeOK
<1>2. PICK u \in taken :
        /\ lamport_timestamp' = [lamport_timestamp EXCEPT ![u] = time[t]]
        /\ taken' = taken \ {u}
        /\ pc' = [pc EXCEPT ![t] = IF taken = {u} THEN "leave" ELSE "release"]
  BY DEF ReleaseThreadLock, ReleasedClock
<1>3. /\ pc[t] = "release"
      /\ UNCHANGED <<trace_file, trace_stream, user_threadid, pin_threadid_set, op, time, performed>>
  BY DEF ReleaseThreadLock, globals, history, file
<1>4. pc'[t] = IF taken = {u} THEN "leave" ELSE "release"
  BY <1>1, <1>2
<1>5. \A s \in Threads \ {t} :
        /\ pc'[s] = pc[s] /\ pc[s] \notin PostBody \cup {"leave"}
        /\ Bounds(s) => s \in pin_threadid_set
  <2>1. \A s \in Threads \ {t} : pc'[s] = pc[s]
    BY <1>1, <1>2
  <2> QED BY <1>3, <2>1, InSync
<1>6. ASSUME NEW s \in Threads
      PROVE  /\ Closed(s) => Closed(s)' /\ performed'[s] = performed[s]
             /\ Closed(s)' /\ IsRegistered(s) => Closed(s)
             /\ pc[s] = "finished" => pc'[s] = "finished"
             /\ s # t => (Bounds(s) => Bounds(s)')
  BY <1>3, <1>4, <1>5 DEF Closed, Bounds, IsRegistered
<1>7. ASSUME NEW s \in Threads, NEW x \in Nat, Pending(s, x)
      PROVE  lamport_timestamp'[s] >= x \/ Pending(s, x)'
  <2>1. x <= time[t] /\ s \in taken
    BY <1>3, <1>5, <1>7 DEF Pending
  <2>2. CASE s = u
    BY <1>1, <1>2, <2>1, <2>2
  <2>3. CASE s # u
    BY <1>2, <1>3, <1>4, <2>1, <2>3 DEF Pending
  <2> QED BY <2>2, <2>3
<1>8. pc'[Main] # "finished" =>
        /\ pc[Main] # "finished"
        /\ \A s \in Threads : Bounds(s) =>
             \E w \in Threads : Bounds(w)' /\ lamport_timestamp'[w] >= lamport_timestamp[s]
  <2>1. Main \in Threads
    OBVIOUS
  <2> SUFFICES ASSUME pc'[Main] # "finished", NEW s \in Threads, Bounds(s)
               PROVE  \E w \in Threads : Bounds(w)' /\ lamport_timestamp'[w] >= lamport_timestamp[s]
    BY <1>6, <2>1
  <2>2. CASE s # t \/ Bounds(t)'
    BY <1>6, <2>2 DEF Advance
  <2>3. CASE s = t /\ ~Bounds(t)'
    <3>1. taken = {u} /\ pc'[t] = "leave"
      BY <1>4, <2>3 DEF Bounds
    <3>2. op[t] # "start"
      BY <1>3, <2>3, <3>1 DEF PintoolInv, ControlInv, Registration, Bounds, IsRegistered
    <3>3. t # Main /\ Main \in pin_threadid_set
      <4>1. t \in pin_threadid_set
        BY <1>3, <3>2, InSync
      <4> QED BY <1>3, <2>3, <3>2, <4>1, InSync DEF Bounds
    <3>4. lamport_timestamp[t] = time[t]
      BY <1>3 DEF PintoolInv, TimesInv, SyncClock
    <3>5. lamport_timestamp'[Main] >= time[t]
      <4>1. CASE Main = u
        BY <1>1, <1>2, <4>1
      <4>2. CASE Main # u
        BY <1>1, <1>2, <1>3, <3>1, <3>3, <4>2 DEF PintoolInv, ClockInv, SyncTimes
      <4> QED BY <4>1, <4>2
    <3> QED BY <1>3, <2>1, <2>3, <3>3, <3>4, <3>5 DEF Bounds
  <2> QED BY <2>2, <2>3
<1> QED BY <1>3, <1>6, <1>7, <1>8 DEF FileStep

LEMMA FinishFileStep ==
  ASSUME PintoolInv, Advance, NEW t \in Threads, FinishThread(t)
  PROVE  FileStep
<1> USE DEF PostBody, HasStartFini, SyncPlaces
<1>1. /\ pc \in [Threads -> Places] /\ op \in [Threads -> Ops] /\ taken \subseteq Threads
      /\ pin_threadid_set \subseteq Threads
      /\ trace_stream \in [Threads -> Seq(Lines)] /\ trace_file \in Seq(Lines)
  BY DEF PintoolInv, TypeInv, TypeOK
<1>2. /\ pc[t] = "leave" /\ op[t] = "fini" /\ pc' = [pc EXCEPT ![t] = "finished"]
      /\ UNCHANGED <<user_threadid, op, time, taken, lamport_timestamp, performed>>
      /\ pin_threadid_set' = pin_threadid_set \ {t}
      /\ trace_file' = trace_file \o trace_stream[t]
      /\ trace_stream' = [trace_stream EXCEPT ![t] = <<>>]
  BY DEF FinishThread, history
<1>3. UNCHANGED <<trace_file, trace_stream>>
  <2>1. trace_stream[t] = <<>>
    BY <1>2 DEF PintoolInv, FileInv, StreamInv, Closed
  <2>2. trace_file \o <<>> = trace_file
    BY <1>1
  <2> QED BY <1>1, <1>2, <2>1, <2>2
<1>4. \A s \in Threads \ {t} :
        /\ pc'[s] = pc[s] /\ pc[s] \notin PostBody \cup {"leave"}
        /\ Bounds(s) => s \in pin_threadid_set
  <2>1. \A s \in Threads \ {t} : pc'[s] = pc[s]
    BY <1>1, <1>2
  <2> QED BY <1>2, <2>1, InSync
<1>5. ASSUME NEW s \in Threads
      PROVE  /\ Closed(s) => Closed(s)' /\ performed'[s] = performed[s]
             /\ Closed(s)' /\ IsRegistered(s) => Closed(s)
             /\ pc[s] = "finished" => pc'[s] = "finished"
             /\ s # t => (Bounds(s) => Bounds(s)')
             /\ s \in pin_threadid_set => s \in pin_threadid_set' \/ Closed(s)
             /\ \A x \in Nat : ~Pending(s, x)
  <2>1. Closed(t) /\ pc'[t] = "finished"
    BY <1>1, <1>2 DEF Closed
  <2>2. CASE s = t
    BY <1>2, <1>4, <2>1, <2>2 DEF Closed, Pending
  <2>3. CASE s # t
    BY <1>2, <1>4, <2>3 DEF Closed, Bounds, IsRegistered, Pending
  <2> QED BY <2>2, <2>3
<1>6. pc'[Main] # "finished" =>
        /\ pc[Main] # "finished"
        /\ \A s \in Threads : Bounds(s) =>
             \E w \in Threads : Bounds(w)' /\ lamport_timestamp'[w] >= lamport_timestamp[s]
  <2>1. Main \in Threads
    OBVIOUS
  <2> SUFFICES ASSUME pc'[Main] # "finished", NEW s \in Threads, Bounds(s)
               PROVE  \E w \in Threads : Bounds(w)' /\ lamport_timestamp'[w] >= lamport_timestamp[s]
    BY <1>5, <2>1
  <2>2. CASE s # t
    BY <1>5, <2>2 DEF Advance
  <2>3. CASE s = t
    <3>1. t # Main /\ Main \in pin_threadid_set
      BY <1>1, <1>2, InSync
    <3>2. IsRegistered(t)
      BY <1>2, <2>3, <3>1 DEF Bounds
    <3>3. lamport_timestamp[Main] >= lamport_timestamp[t]
      BY <1>2, <3>1, <3>2 DEF PintoolInv, TimesInv, FiniClock
    <3> QED BY <1>2, <2>1, <2>3, <3>1, <3>3 DEF Bounds
  <2> QED BY <2>2, <2>3
<1>7. \A s \in pin_threadid_set : s \in pin_threadid_set' \/ Closed(s)
  BY <1>1, <1>5
<1> QED BY <1>2, <1>3, <1>5, <1>6, <1>7 DEF FileStep

\* The line of a synchronisation: it is later than everything in the file
\* and in the buffers, for every clock that bounds them is in its hands.
LEMMA SyncLines ==
  ASSUME PintoolInv, NEW t \in Threads, pc[t] = "body"
  PROVE  /\ \A i \in DOMAIN trace_file : trace_file[i].time < SyncTime(t)
         /\ \A u \in Threads : \A j \in DOMAIN trace_stream[u] :
              trace_stream[u][j].time < SyncTime(t)
         /\ lamport_timestamp[t] < SyncTime(t)
<1>1. /\ trace_file \in Seq(Lines) /\ trace_stream \in [Threads -> Seq(Lines)]
      /\ \A s \in Threads : lamport_timestamp[s] \in Nat /\ time[s] \in Nat
      /\ \A i \in DOMAIN trace_file : trace_file[i].time \in Nat
      /\ \A s \in Threads : \A j \in DOMAIN trace_stream[s] : trace_stream[s][j].time \in Nat
  <2>1. \A s \in Threads : time[s] \in Nat
    BY DEF PintoolInv, TypeInv, TypeOK
  <2> QED BY <2>1, FileTypes DEF PintoolInv
<1>2. /\ taken = pin_threadid_set
      /\ \A u \in taken : u \in Threads /\ lamport_timestamp[u] <= time[t]
  BY DEF PintoolInv, LockInv, ClockInv, SyncTimes, TypeInv, TypeOK
<1>3. ASSUME NEW i \in DOMAIN trace_file PROVE trace_file[i].time < SyncTime(t)
  <2>1. pc[Main] # "finished"
    BY InSync DEF SyncPlaces
  <2>2. PICK u \in Threads : Bounds(u) /\ trace_file[i].time <= lamport_timestamp[u]
    BY <2>1 DEF PintoolInv, FileInv, FileBound
  <2>3. u \in pin_threadid_set
    BY <2>2, InSync DEF SyncPlaces, Bounds, PostBody
  <2>4. lamport_timestamp[u] <= time[t] /\ trace_file[i].time \in Nat
        /\ lamport_timestamp[u] \in Nat /\ time[t] \in Nat
    BY <1>1, <1>2, <2>3
  <2> QED BY <2>2, <2>4 DEF SyncTime
<1>4. ASSUME NEW u \in Threads, NEW j \in DOMAIN trace_stream[u]
      PROVE  trace_stream[u][j].time < SyncTime(t)
  <2>1. trace_stream[u] # <<>>
    OBVIOUS
  <2>2. u \in pin_threadid_set /\ trace_stream[u][j].time <= lamport_timestamp[u]
    BY <2>1 DEF PintoolInv, FileInv, StreamInv
  <2>3. lamport_timestamp[u] <= time[t]
    BY <1>2, <2>2
  <2>4. trace_stream[u][j].time \in Nat /\ lamport_timestamp[u] \in Nat /\ time[t] \in Nat
    BY <1>1
  <2>5. trace_stream[u][j].time < time[t] + 1
    BY <2>2, <2>3, <2>4
  <2> QED BY <2>5 DEF SyncTime
<1>5. lamport_timestamp[t] <= time[t]
  <2>1. CASE t \in pin_threadid_set
    BY <1>2, <2>1
  <2>2. CASE t \notin pin_threadid_set
    <3>1. op[t] = "start"
      BY <2>2, InSync DEF SyncPlaces
    <3>2. lamport_timestamp[t] = 0
      BY <3>1 DEF PintoolInv, ClockInv, Fresh
    <3> QED BY <1>1, <3>2
  <2> QED BY <2>1, <2>2
<1>6. lamport_timestamp[t] < SyncTime(t)
  <2>1. lamport_timestamp[t] \in Nat /\ time[t] \in Nat
    BY <1>1
  <2> QED BY <1>5, <2>1 DEF SyncTime
<1> QED BY <1>3, <1>4, <1>6

LEMMA BodyFileStep ==
  ASSUME PintoolInv, TypeInv', Advance, NEW t \in Threads, SyncBody(t)
  PROVE  FileStep
<1>1. /\ pc \in [Threads -> Places] /\ op \in [Threads -> Ops] /\ time \in [Threads -> Nat]
      /\ user_threadid \in [Threads -> Threads \cup {Unregistered}] /\ taken \subseteq Threads
      /\ trace_stream \in [Threads -> Seq(Lines)] /\ trace_file \in Seq(Lines)
      /\ user_threadid[t] \in {t, Unregistered} /\ t # Unregistered
      /\ performed[t] \in Nat /\ lamport_timestamp \in [Threads -> Nat]
  <2>1. user_threadid[t] \in {t, Unregistered} /\ t # Unregistered
    BY DEF PintoolInv, ControlInv, Registration, Unregistered
  <2> QED BY <2>1 DEF PintoolInv, TypeInv, TypeOK
<1>2. /\ pc[t] = "body" /\ taken = pin_threadid_set
      /\ UNCHANGED <<op, taken, pin_threadid_set, performed>>
      /\ user_threadid' = IF op[t] \in {"start", "register"}
                          THEN [user_threadid EXCEPT ![t] = t] ELSE user_threadid
      /\ time' = [time EXCEPT ![t] = SyncTime(t)]
      /\ TouchBuffer(t, SyncLine(t, SyncTime(t)), TRUE)
      /\ pc' = [pc EXCEPT ![t] = IF flush_others'[t] # {} THEN "flush_all" ELSE AfterFlush]
  BY DEF SyncBody, PintoolInv, LockInv, mutexes, history
<1>3. /\ pc'[t] \in PostBody \cup {"leave"}
      /\ pc'[t] = "leave" => taken = {}
      /\ \A s \in Threads \ {t} : pc'[s] = pc[s] /\ time'[s] = time[s]
      /\ time'[t] = SyncTime(t)
  BY <1>1, <1>2 DEF AfterFlush, PostBody
<1>4. /\ \A s \in Threads \ {t} : /\ pc[s] \notin HasStartFini
                                  /\ pc[s] \notin PostBody \cup {"leave"}
                                  /\ Closed(s) => pc[s] = "finished"
                                  /\ Bounds(s) => s \in pin_threadid_set
      /\ op[t] \in SyncOps
      /\ t \notin pin_threadid_set => op[t] = "start"
      /\ pc[Main] = "finished" => t = Main
      /\ ~Closed(t)
  BY <1>2, InSync DEF SyncPlaces, Closed, PostBody
<1>5. /\ op[t] \in {"start", "register", "unregistered_function"} => ~IsRegistered(t)
      /\ op[t] = "fini" => IsRegistered(t)
  BY <1>2 DEF PintoolInv, ControlInv, Registration
<1>6. SyncTime(t) \in Nat
  BY <1>1 DEF SyncTime
<1>7. PICK line \in Lines : line = SyncLine(t, SyncTime(t))
  <2> DEFINE what == CASE op[t] \in {"start", "register"} -> "tr"
                       [] op[t] = "fini" -> "tf"
                       [] op[t] = "unregistered_function" -> "f"
                       [] OTHER -> op[t]
  <2>1. user_threadid'[t] \in Threads \cup {Unregistered}
    BY <1>1, <1>2
  <2>2. what \in {"tr", "tf", "f", "start_roi", "end_roi"}
    BY <1>4 DEF SyncOps
  <2>3. SyncLine(t, SyncTime(t)) = [time |-> SyncTime(t), tid |-> user_threadid'[t], what |-> what]
    BY DEF SyncLine, Line
  <2> HIDE DEF what
  <2> QED BY <1>6, <2>1, <2>2, <2>3 DEF Lines
<1>8. /\ line.time = SyncTime(t) /\ line.tid = user_threadid'[t]
      /\ line.what = CASE op[t] \in {"start", "register"} -> "tr"
                       [] op[t] = "fini" -> "tf"
                       [] op[t] = "unregistered_function" -> "f"
                       [] OTHER -> op[t]
  BY <1>7 DEF SyncLine, Line
<1>9. /\ lamport_timestamp' = [lamport_timestamp EXCEPT ![t] = line.time]
      /\ trace_file' = trace_file \o Append(trace_stream[t], line)
      /\ trace_stream' = [trace_stream EXCEPT ![t] = <<>>]
  BY <1>2, <1>7, TouchWrites
<1>10. \/ /\ op[t] \in {"start", "register"} /\ line.what = "tr" /\ line.tid = t
          /\ ~IsRegistered(t) /\ user_threadid' = [user_threadid EXCEPT ![t] = t]
       \/ /\ op[t] = "fini" /\ line.what = "tf" /\ line.tid = t
          /\ IsRegistered(t) /\ UNCHANGED user_threadid
       \/ /\ op[t] = "unregistered_function" /\ line.what = "f" /\ line.tid = Unregistered
          /\ ~IsRegistered(t) /\ UNCHANGED user_threadid
       \/ /\ op[t] \in {"start_roi", "end_roi"} /\ line.what = op[t]
          /\ line.tid = IF IsRegistered(t) THEN t ELSE Unregistered
          /\ UNCHANGED user_threadid
  BY <1>1, <1>2, <1>4, <1>5, <1>8 DEF SyncOps, IsRegistered
<1>11. IsSync(line) /\ lamport_timestamp'[t] = line.time /\ line.time \in Nat
  BY <1>1, <1>6, <1>8, <1>9, <1>10 DEF IsSync
<1>12. /\ \A i \in DOMAIN trace_file : trace_file[i].time < line.time
       /\ \A u \in Threads : \A j \in DOMAIN trace_stream[u] : trace_stream[u][j].time < line.time
       /\ line.time > lamport_timestamp[t]
  <2>1. /\ \A i \in DOMAIN trace_file : trace_file[i].time < SyncTime(t)
        /\ \A u \in Threads : \A j \in DOMAIN trace_stream[u] :
             trace_stream[u][j].time < SyncTime(t)
        /\ lamport_timestamp[t] < SyncTime(t)
    BY <1>2, SyncLines
  <2>2. lamport_timestamp[t] \in Nat
    BY <1>1
  <2> QED BY <1>6, <1>8, <2>1, <2>2
<1>13. \A u \in Threads : IsRegistered(u)' /\ pc'[u] # "finished" =>
         lamport_timestamp'[u] >= line.time \/ Pending(u, line.time)'
  <2> SUFFICES ASSUME NEW u \in Threads, u # t, IsRegistered(u)', pc'[u] # "finished"
               PROVE  Pending(u, line.time)'
    BY <1>11
  <2>1. IsRegistered(u) /\ pc[u] \notin {"unstarted", "created", "finished"}
    <3>1. user_threadid'[u] = user_threadid[u] /\ pc'[u] = pc[u]
      BY <1>1, <1>2, <1>3
    <3> QED BY <3>1 DEF IsRegistered, PintoolInv, ControlInv, Registration
  <2>2. u \in pin_threadid_set
    BY <1>4, <2>1 DEF PintoolInv, ClockInv, Known, HasStartFini
  <2>3. pc'[t] \in PostBody /\ u \in taken' /\ line.time <= time'[t]
    BY <1>2, <1>3, <1>6, <1>8, <2>2
  <2> QED BY <2>3 DEF Pending
<1>14. IsRegistered(t)' /\ pc'[t] = "leave" => op[t] = "start"
  BY <1>2, <1>3, <1>4
<1>15. NewLine(t, line)
  <2>1. line.what = "tf" => Closed(t)' /\ performed'[t] < line.time
    <3> SUFFICES ASSUME line.what = "tf" PROVE Closed(t)' /\ performed'[t] < line.time
      OBVIOUS
    <3>1. op'[t] = "fini"
      BY <1>2, <1>10
    <3>2. performed[t] <= lamport_timestamp[t] /\ lamport_timestamp[t] \in Nat
      BY <1>1 DEF PintoolInv, TimesInv, LastAccessClock
    <3> QED BY <1>1, <1>2, <1>3, <1>11, <1>12, <3>1, <3>2 DEF Closed
  <2>2. IsRegistered(t) => t \in pin_threadid_set
    BY <1>4, <1>5
  <2> QED BY <1>4, <1>10, <1>11, <1>12, <1>13, <2>1, <2>2 DEF NewLine
<1>16. Bounds(t)' /\ line.time <= lamport_timestamp'[t]
  <2>1. CASE pc'[t] \in PostBody
    BY <1>11, <2>1 DEF Bounds
  <2>2. CASE pc'[t] = "leave"
    <3>1. op[t] = "start" /\ op'[t] = "start"
      BY <1>2, <1>3, <1>4, <2>2
    <3>2. user_threadid'[t] # Unregistered
      BY <1>1, <1>2, <3>1
    <3> QED BY <1>11, <2>2, <3>1, <3>2 DEF Bounds, IsRegistered
  <2> QED BY <1>3, <2>1, <2>2
<1>17. Writes(t, line)
  BY <1>9, <1>16 DEF Writes
<1>18. ASSUME NEW s \in Threads
       PROVE  /\ Closed(s) => Closed(s)' /\ performed'[s] = performed[s]
              /\ Closed(s)' /\ IsRegistered(s)' => Closed(s) \/ (s = t /\ line.what = "tf")
              /\ pc[s] = "finished" => pc'[s] = "finished"
              /\ Bounds(s) => Bounds(s)'
              /\ \A x \in Nat : ~Pending(s, x)
  <2>1. \A x \in Nat : ~Pending(s, x)
    BY <1>2, <1>4 DEF Pending, PostBody
  <2>2. CASE s = t
    BY <1>2, <1>3, <1>4, <1>10, <1>16, <2>1, <2>2 DEF Closed, PostBody
  <2>3. CASE s # t
    <3>1. user_threadid'[s] = user_threadid[s] /\ pc'[s] = pc[s] /\ op'[s] = op[s]
      BY <1>1, <1>2, <1>3, <2>3
    <3> QED BY <1>2, <1>4, <2>1, <2>3, <3>1 DEF Closed, Bounds, IsRegistered
  <2> QED BY <2>2, <2>3
<1>19. pc'[Main] # "finished" =>
        /\ pc[Main] # "finished"
        /\ \A s \in Threads : Bounds(s) =>
             \E w \in Threads : Bounds(w)' /\ lamport_timestamp'[w] >= lamport_timestamp[s]
  <2>1. Main \in Threads
    OBVIOUS
  <2> QED BY <1>18, <2>1 DEF Advance
<1> QED BY <1>2, <1>15, <1>17, <1>18, <1>19 DEF FileStep

LEMMA FlushFileStep ==
  ASSUME PintoolInv, Advance, NEW t \in Threads, NEW u \in Threads, FlushOther(t, u)
  PROVE  FileStep
<1> USE DEF PostBody
<1>1. /\ pc \in [Threads -> Places] /\ op \in [Threads -> Ops] /\ time \in [Threads -> Nat]
      /\ user_threadid \in [Threads -> Threads \cup {Unregistered}]
      /\ trace_stream \in [Threads -> Seq(Lines)] /\ lamport_timestamp \in [Threads -> Nat]
      /\ trace_file \in Seq(Lines)
  BY DEF PintoolInv, TypeInv, TypeOK
<1>2. pc[t] = "flush_all" /\ taken = pin_threadid_set
  BY DEF FlushOther, PintoolInv, LockInv
<1>3. /\ UNCHANGED <<op, time, taken, pin_threadid_set, user_threadid, performed>>
      /\ pc'[t] \in {"flush_all", "release", "leave"}
      /\ pc'[t] = "leave" => taken = {}
      /\ \A s \in Threads \ {t} : pc'[s] = pc[s]
  <2>1. UNCHANGED <<op, time, taken, pin_threadid_set, user_threadid, performed>>
    BY DEF FlushOther, globals, history
  <2>2. /\ pc'[t] \in {"flush_all", "release", "leave"}
        /\ pc'[t] = "leave" => taken = {}
        /\ \A s \in Threads \ {t} : pc'[s] = pc[s]
    BY <1>1, <1>2 DEF FlushOther, AfterFlush
  <2> QED BY <2>1, <2>2
<1>4. /\ \A s \in Threads \ {t} : /\ pc[s] \notin PostBody \cup {"leave"}
                                  /\ Closed(s) => pc[s] = "finished"
                                  /\ Bounds(s) => s \in pin_threadid_set
      /\ t \notin pin_threadid_set => op[t] = "start"
  BY <1>2, InSync DEF SyncPlaces
<1>5. /\ op[t] = "start" => IsRegistered(t)
      /\ lamport_timestamp[t] = time[t]
  BY <1>2 DEF PintoolInv, ControlInv, Registration, TimesInv, SyncClock
<1>6. ASSUME NEW s \in Threads
      PROVE  /\ Closed(s) => Closed(s)' /\ performed'[s] = performed[s]
             /\ Closed(s)' => Closed(s)
             /\ pc[s] = "finished" => pc'[s] = "finished"
             /\ Bounds(s) => Bounds(s)'
  <2>1. CASE s = t
    BY <1>2, <1>3, <1>4, <1>5, <2>1 DEF Closed, Bounds, IsRegistered
  <2>2. CASE s # t
    BY <1>3, <1>4, <2>2 DEF Closed, Bounds, IsRegistered
  <2> QED BY <2>1, <2>2
<1>7. ASSUME NEW s \in Threads, NEW x \in Nat, Pending(s, x) PROVE Pending(s, x)'
  <2>1. s \in taken /\ x <= time[t] /\ pc'[t] \in PostBody
    BY <1>2, <1>3, <1>4, <1>7 DEF Pending
  <2> QED BY <1>3, <2>1 DEF Pending
<1>8. CASE UNCHANGED <<trace_file, trace_stream>>
  BY <1>3, <1>6, <1>7, <1>8, QuietFileStep
<1>9. CASE ~UNCHANGED <<trace_file, trace_stream>>
  <2>1. /\ u \in pin_threadid_set /\ Lags(time[t], lamport_timestamp[u])
        /\ lamport_timestamp' = [lamport_timestamp EXCEPT ![u] = time[t]]
        /\ trace_file' = trace_file \o SyncedStream(u, time[t])
        /\ trace_stream' = [trace_stream EXCEPT ![u] = <<>>]
        /\ SyncedStream(u, time[t]) # <<>>
    BY <1>9 DEF FlushOther, file
  <2>2. lamport_timestamp[u] < time[t] /\ u # t /\ time[t] \in Nat
    <3>1. lamport_timestamp[u] \in Nat /\ time[t] \in Nat /\ TimestampDifference \in Nat \ {0}
      BY <1>1
    <3>2. lamport_timestamp[u] < time[t]
      BY <2>1, <3>1 DEF Lags
    <3> QED BY <1>5, <3>1, <3>2
  <2>3. IsRegistered(u)
    BY <2>1 DEF PintoolInv, FileInv, StreamInv, SyncedStream, IsRegistered
  <2>4. user_threadid[u] = u /\ u # Unregistered
    BY <2>3 DEF PintoolInv, ControlInv, Registration, IsRegistered, Unregistered
  <2> DEFINE line == Line(time[t], u, "thread_sync")
  <2>5. line \in Lines /\ line.time = time[t] /\ line.tid = u /\ line.what = "thread_sync"
    BY <2>2 DEF Line, Lines
  <2>6. trace_file' = trace_file \o Append(trace_stream[u], line)
    BY <2>1, <2>3, <2>4 DEF SyncedStream, IsRegistered
  <2> HIDE DEF line
  <2>7. ~Closed(u)
    <3>1. pc[u] # "finished"
      BY <2>1 DEF PintoolInv, ClockInv, Known
    <3> QED BY <1>4, <2>2, <3>1
  <2>8. lamport_timestamp'[u] = line.time
    BY <1>1, <2>1, <2>5
  <2>9. NewLine(u, line)
    BY <1>3, <2>1, <2>2, <2>3, <2>5, <2>7, <2>8 DEF NewLine, IsSync
  <2>10. Writes(u, line)
    <3>1. Bounds(u)'
      BY <1>3, <2>1, <2>3 DEF Bounds, IsRegistered
    <3>2. line.time <= lamport_timestamp'[u]
      BY <2>2, <2>5, <2>8
    <3> QED BY <2>1, <2>6, <3>1, <3>2 DEF Writes
  <2>11. pc'[Main] # "finished" =>
          /\ pc[Main] # "finished"
          /\ \A s \in Threads : Bounds(s) =>
               \E w \in Threads : Bounds(w)' /\ lamport_timestamp'[w] >= lamport_timestamp[s]
    <3>1. Main \in Threads
      OBVIOUS
    <3> QED BY <1>6, <3>1 DEF Advance
  <2> QED BY <1>3, <1>6, <1>7, <2>5, <2>9, <2>10, <2>11 DEF FileStep
<1> QED BY <1>8, <1>9

LEMMA FileStepHolds ==
  ASSUME Cooperative, PintoolInv, TypeInv', Advance, [Next]_vars
  PROVE  FileStep
<1>1. CASE UNCHANGED vars
  <2>1. UNCHANGED <<pc, op, time, taken, trace_file, trace_stream, user_threadid,
                    pin_threadid_set, performed>>
    BY <1>1 DEF vars, control, buffers, mutexes, globals, file, history
  <2>2. \A t \in Threads : /\ Closed(t)' <=> Closed(t)
                           /\ Bounds(t)' <=> Bounds(t)
                           /\ \A x \in Nat : Pending(t, x) => Pending(t, x)'
    BY <2>1 DEF Closed, Bounds, IsRegistered, Pending
  <2> QED BY <2>1, <2>2, QuietFileStep
<1>2. ASSUME NEW t \in Threads, Inside(t) PROVE FileStep
  <2>1. ASSUME PausedLock(t) \/ Restart(t) PROVE FALSE
    BY <2>1 DEF PausedLock, Restart, PintoolInv, LockInv
  <2> QED BY <1>2, <2>1, SectionFileStep, FlushFileStep, BodyFileStep, ReleaseFileStep,
             FinishFileStep DEF Inside
<1>3. /\ TypeInv /\ Registration
  BY DEF PintoolInv, ControlInv
<1> QED BY <1>1, <1>2, <1>3, FileSteps, OwnFileStep, CreateFileStep, TracedFileStep

LEMMA FileInvInit == Init => FileInv
<1> SUFFICES ASSUME Init PROVE FileInv
  OBVIOUS
<1>1. /\ trace_file = <<>> /\ DOMAIN trace_file = {}
      /\ \A t \in Threads : /\ trace_stream[t] = <<>> /\ DOMAIN trace_stream[t] = {}
                            /\ user_threadid[t] = Unregistered
  BY DEF Init
<1>2. FileBound /\ StreamInv /\ OwnLines /\ RegisterLines /\ FinishLines /\ PastSync
  BY <1>1 DEF FileBound, StreamInv, OwnLines, RegisterLines, FinishLines, PastSync, IsRegistered
<1>3. SyncIsBarrier /\ MergeContract
  BY <1>1 DEF SyncIsBarrier, MergeContract, Contract!WellFormed
<1> QED BY <1>2, <1>3 DEF FileInv

\* The inductive invariant of the pintool, as long as no routine pauses.
LEMMA PintoolInvInit == Init => PintoolInv
<1>1. Init => ControlInv
  BY ControlInvInit
<1> QED BY <1>1, TypeInit, SyncOwnerInit, LockInvInit, ClockInvInit, TimesInvInit, FileInvInit
        DEF PintoolInv

LEMMA PintoolInvStep ==
  ASSUME Cooperative, PintoolInv, NeverPaused', [Next]_vars
  PROVE  PintoolInv'
<1>1. TypeInv' /\ SyncOwner' /\ LockInv'
  BY TypeStep, SyncOwnerStep, LockInvStep DEF PintoolInv
<1>2. ClockInv' /\ Advance
  BY ClockStep DEF PintoolInv
<1>3. ControlInv'
  BY ControlInvStep DEF PintoolInv
<1>4. TimesInv'
  BY <1>1, <1>2, TimesInvStep DEF PintoolInv
<1>5. FileInv'
  <2>1. FileStep
    BY <1>1, <1>2, FileStepHolds
  <2> QED BY <1>1, <2>1, FileInvStep DEF PintoolInv, ControlInv
<1> QED BY <1>1, <1>2, <1>3, <1>4, <1>5 DEF PintoolInv

\* What the merge utility assumes of a trace file is true of the file the
\* pintool writes, line by line: the lines of a thread are in the order of
\* their times, between its register and finish lines, and a line that makes
\* a thread known, or is nobody's, is later than all a reader may have let go.
THEOREM FileMeetsContract ==
  Cooperative => (Spec /\ []NeverPaused => []MergeContract)
<1> SUFFICES ASSUME Cooperative PROVE Spec /\ []NeverPaused => []MergeContract
  OBVIOUS
<1>1. PintoolInv /\ NeverPaused' /\ [Next]_vars => PintoolInv'
  BY PintoolInvStep
<1>2. PintoolInv => MergeContract
  BY DEF PintoolInv, FileInv
<1> QED BY <1>1, <1>2, PintoolInvInit, PTL DEF Spec

\* A line that synchronises all threads divides the trace file: what was
\* written before it is earlier, and nothing written after it has its time
\* but the lines of threads it flushed.
THEOREM SyncsDivideFile ==
  Cooperative => (Spec /\ []NeverPaused => []SyncIsBarrier)
<1> SUFFICES ASSUME Cooperative PROVE Spec /\ []NeverPaused => []SyncIsBarrier
  OBVIOUS
<1>1. PintoolInv /\ NeverPaused' /\ [Next]_vars => PintoolInv'
  BY PintoolInvStep
<1>2. PintoolInv => SyncIsBarrier
  BY DEF PintoolInv, FileInv
<1> QED BY <1>1, <1>2, PintoolInvInit, PTL DEF Spec

(***************************************************************************)
(* Where the lines are that a thread has put in its buffer                 *)
(***************************************************************************)
\* The line is in the file and not behind the thread's finish line.
Placed(content, t, line) ==
  \E i \in DOMAIN content :
    /\ content[i] = line
    /\ \A k \in DOMAIN content : content[k].tid = t /\ content[k].what = "tf" => i <= k

Waiting(stream, line) == \E j \in DOMAIN stream : stream[j] = line

\* A line put in a buffer is there still or has its place in the file.
EmittedInv ==
  \A t \in Threads : \A line \in emitted[t] :
    Waiting(trace_stream[t], line) \/ Placed(trace_file, t, line)

\* A file with more lines behind it.
LEMMA Longer ==
  ASSUME NEW content \in Seq(Lines), NEW more \in Seq(Lines)
  PROVE  /\ content \o more \in Seq(Lines)
         /\ \A i \in DOMAIN content :
              i \in DOMAIN (content \o more) /\ (content \o more)[i] = content[i]
         /\ \A j \in DOMAIN more :
              /\ Len(content) + j \in DOMAIN (content \o more)
              /\ (content \o more)[Len(content) + j] = more[j]
         /\ \A k \in DOMAIN (content \o more) :
              k \in DOMAIN content \/ (k > Len(content) /\ k - Len(content) \in DOMAIN more)
<1>1. /\ Len(content) \in Nat /\ DOMAIN content = 1 .. Len(content)
      /\ Len(more) \in Nat /\ DOMAIN more = 1 .. Len(more)
  BY LenProperties
<1>2. /\ content \o more \in Seq(Lines) /\ Len(content \o more) = Len(content) + Len(more)
      /\ \A i \in 1 .. Len(content) + Len(more) :
           (content \o more)[i] = IF i <= Len(content) THEN content[i]
                                  ELSE more[i - Len(content)]
  BY ConcatProperties
<1>3. DOMAIN (content \o more) = 1 .. Len(content) + Len(more)
  BY <1>2, LenProperties
<1> DEFINE whole == content \o more
<1> HIDE DEF whole
<1>4. /\ whole \in Seq(Lines) /\ DOMAIN whole = 1 .. Len(content) + Len(more)
      /\ \A i \in 1 .. Len(content) + Len(more) :
           whole[i] = IF i <= Len(content) THEN content[i] ELSE more[i - Len(content)]
  BY <1>2, <1>3 DEF whole
<1>5. \A i \in DOMAIN content : i \in DOMAIN whole /\ whole[i] = content[i]
  BY <1>1, <1>4
<1>6. ASSUME NEW j \in DOMAIN more
      PROVE  Len(content) + j \in DOMAIN whole /\ whole[Len(content) + j] = more[j]
  <2>1. j \in Nat /\ j >= 1 /\ j <= Len(more)
    BY <1>1
  <2>2. Len(content) + j \in 1 .. Len(content) + Len(more) /\ ~(Len(content) + j <= Len(content))
    BY <1>1, <2>1
  <2>3. Len(content) + j - Len(content) = j
    BY <1>1, <2>1
  <2>4. whole[Len(content) + j] = more[Len(content) + j - Len(content)]
    BY <1>4, <2>2
  <2> QED BY <1>4, <2>2, <2>3, <2>4
<1>7. \A k \in DOMAIN whole :
        k \in DOMAIN content \/ (k > Len(content) /\ k - Len(content) \in DOMAIN more)
  BY <1>1, <1>4
<1> QED BY <1>4, <1>5, <1>6, <1>7 DEF whole

\* A line keeps its place when the file grows.
LEMMA PlacedStays ==
  ASSUME NEW content \in Seq(Lines), NEW more \in Seq(Lines), NEW t, NEW line,
         Placed(content, t, line)
  PROVE  Placed(content \o more, t, line)
<1> DEFINE whole == content \o more
<1>1. /\ \A i \in DOMAIN content : i \in DOMAIN whole /\ whole[i] = content[i]
      /\ \A k \in DOMAIN whole : k \in DOMAIN content \/ k > Len(content)
  BY Longer
<1>2. PICK i \in DOMAIN content :
        /\ content[i] = line
        /\ \A k \in DOMAIN content : content[k].tid = t /\ content[k].what = "tf" => i <= k
  BY DEF Placed
<1>3. i \in Nat /\ i <= Len(content) /\ Len(content) \in Nat
  BY LenProperties
<1>4. DOMAIN whole \subseteq Nat
  <2>1. whole \in Seq(Lines)
    BY Longer
  <2> HIDE DEF whole
  <2> QED BY <2>1, LenProperties
<1> HIDE DEF whole
<1>5. \A k \in DOMAIN whole : whole[k].tid = t /\ whole[k].what = "tf" => i <= k
  BY <1>1, <1>2, <1>3, <1>4
<1>6. Placed(whole, t, line)
  BY <1>1, <1>2, <1>5 DEF Placed
<1> QED BY <1>6 DEF whole

\* A line written behind a file without a finish line of its thread, with
\* none in front of it.
LEMMA PlacedBehind ==
  ASSUME NEW content \in Seq(Lines), NEW more \in Seq(Lines), NEW t, NEW j \in DOMAIN more,
         \A i \in DOMAIN content : ~(content[i].tid = t /\ content[i].what = "tf"),
         \A k \in DOMAIN more : more[k].tid = t /\ more[k].what = "tf" => j <= k
  PROVE  Placed(content \o more, t, more[j])
<1> DEFINE whole == content \o more
           p == Len(content) + j
<1>1. /\ \A i \in DOMAIN content : whole[i] = content[i]
      /\ \A k \in DOMAIN more : whole[Len(content) + k] = more[k]
      /\ \A k \in DOMAIN whole :
           k \in DOMAIN content \/ (k > Len(content) /\ k - Len(content) \in DOMAIN more)
  BY Longer
<1>2. p \in DOMAIN whole /\ whole[p] = more[j]
  BY Longer
<1>3. j \in Nat /\ Len(content) \in Nat
  BY LenProperties
<1>4. DOMAIN whole \subseteq Nat
  <2>1. whole \in Seq(Lines)
    BY Longer
  <2> HIDE DEF whole
  <2> QED BY <2>1, LenProperties
<1> HIDE DEF whole
<1>5. ASSUME NEW k \in DOMAIN whole, whole[k].tid = t, whole[k].what = "tf" PROVE p <= k
  <2>1. k - Len(content) \in DOMAIN more /\ k \in Nat
    BY <1>1, <1>4, <1>5
  <2>2. Len(content) + (k - Len(content)) = k
    BY <1>3, <2>1
  <2>3. whole[k] = more[k - Len(content)]
    BY <1>1, <2>1, <2>2
  <2>4. j <= k - Len(content)
    BY <1>5, <2>1, <2>3
  <2> QED BY <1>3, <2>1, <2>4
<1> HIDE DEF p
<1>6. Placed(whole, t, more[j])
  BY <1>2, <1>5 DEF Placed
<1> QED BY <1>6 DEF whole

\* What a step does with the lines of thread t: it makes none, it puts one
\* behind the buffer or writes it with the buffer, or it writes the buffer.
Logs(t, line) ==
  /\ line \in Lines /\ ~Closed(t)
  /\ emitted' = [emitted EXCEPT ![t] = @ \cup {line}]
  /\ \/ /\ trace_stream' = [trace_stream EXCEPT ![t] = Append(trace_stream[t], line)]
        /\ UNCHANGED trace_file
     \/ /\ trace_file' = trace_file \o Append(trace_stream[t], line)
        /\ trace_stream' = [trace_stream EXCEPT ![t] = <<>>]

Flushes(t, more) ==
  /\ UNCHANGED emitted
  /\ more \in Seq(Lines)
  /\ \A j \in DOMAIN trace_stream[t] : j \in DOMAIN more /\ more[j] = trace_stream[t][j]
  /\ \A k \in DOMAIN more : k \in DOMAIN trace_stream[t] \/ more[k].what # "tf"
  /\ trace_file' = trace_file \o more
  /\ trace_stream' = [trace_stream EXCEPT ![t] = <<>>]

LogStep ==
  \/ UNCHANGED <<emitted, trace_stream, trace_file>>
  \/ \E t \in Threads, line \in Lines : Logs(t, line)
  \/ \E t \in Threads, more \in Seq(Lines) : Flushes(t, more)

\* No line that may wait in a buffer is a finish line, and while any does its
\* thread has none in the file.
LEMMA NoFinishYet ==
  ASSUME PintoolInv, NEW t \in Threads
  PROVE  /\ \A j \in DOMAIN trace_stream[t] : trace_stream[t][j].what # "tf"
         /\ ~Closed(t) => \A i \in DOMAIN trace_file :
                            ~(trace_file[i].tid = t /\ trace_file[i].what = "tf")
         /\ trace_stream[t] # <<>> => ~Closed(t)
<1>1. /\ StreamInv /\ OwnLines /\ FinishLines
  BY DEF PintoolInv, FileInv
<1>2. \A j \in DOMAIN trace_stream[t] : trace_stream[t][j].what # "tf"
  BY <1>1 DEF StreamInv, Buffered
<1>3. ~Closed(t) => \A i \in DOMAIN trace_file :
                      ~(trace_file[i].tid = t /\ trace_file[i].what = "tf")
  BY <1>1 DEF OwnLines, FinishLines
<1>4. trace_stream[t] # <<>> => ~Closed(t)
  BY <1>1 DEF StreamInv
<1> QED BY <1>2, <1>3, <1>4

LEMMA LogsKeeps ==
  ASSUME PintoolInv, EmittedInv, NEW t \in Threads, NEW line \in Lines, Logs(t, line)
  PROVE  EmittedInv'
<1>1. /\ trace_file \in Seq(Lines) /\ trace_stream \in [Threads -> Seq(Lines)]
      /\ emitted \in [Threads -> SUBSET Lines]
  BY FileTypes DEF PintoolInv, TypeInv, TypeOK
<1> DEFINE stream == trace_stream[t]
           more == Append(stream, line)
<1>2. /\ stream \in Seq(Lines) /\ more \in Seq(Lines)
      /\ Len(stream) \in Nat /\ DOMAIN stream = 1 .. Len(stream)
      /\ DOMAIN more = 1 .. Len(stream) + 1
      /\ \A j \in DOMAIN stream : more[j] = stream[j]
      /\ more[Len(stream) + 1] = line
  <2>1. stream \in Seq(Lines) /\ Len(stream) \in Nat /\ DOMAIN stream = 1 .. Len(stream)
    BY <1>1, LenProperties
  <2>2. /\ more \in Seq(Lines) /\ Len(more) = Len(stream) + 1
        /\ \A j \in 1 .. Len(stream) : more[j] = stream[j]
        /\ more[Len(stream) + 1] = line
    BY <2>1, AppendProperties
  <2>3. DOMAIN more = 1 .. Len(more)
    BY <2>2, LenProperties
  <2> QED BY <2>1, <2>2, <2>3
<1>3. /\ \A i \in DOMAIN trace_file : ~(trace_file[i].tid = t /\ trace_file[i].what = "tf")
      /\ \A j \in DOMAIN stream : stream[j].what # "tf"
  BY NoFinishYet DEF Logs
<1> HIDE DEF more
<1> SUFFICES ASSUME NEW u \in Threads, NEW m \in emitted'[u]
             PROVE  Waiting(trace_stream'[u], m) \/ Placed(trace_file', u, m)
  BY DEF EmittedInv
<1>4. m \in emitted[u] \/ (u = t /\ m = line)
  BY <1>1 DEF Logs
<1>5. CASE trace_stream' = [trace_stream EXCEPT ![t] = more] /\ UNCHANGED trace_file
  <2>1. CASE m \in emitted[u] /\ Placed(trace_file, u, m)
    BY <1>5, <2>1
  <2>2. CASE m \in emitted[u] /\ Waiting(trace_stream[u], m)
    <3>1. PICK j \in DOMAIN trace_stream[u] : trace_stream[u][j] = m
      BY <2>2 DEF Waiting
    <3>2. CASE u = t
      <4>1. j \in DOMAIN more /\ more[j] = m
        BY <1>2, <3>1, <3>2
      <4>2. trace_stream'[u] = more
        BY <1>1, <1>5, <3>2
      <4> QED BY <4>1, <4>2 DEF Waiting
    <3>3. CASE u # t
      <4>1. trace_stream'[u] = trace_stream[u]
        BY <1>1, <1>5, <3>3
      <4> QED BY <2>2, <4>1
    <3> QED BY <3>2, <3>3
  <2>3. CASE u = t /\ m = line
    <3>1. Len(stream) + 1 \in DOMAIN more /\ more[Len(stream) + 1] = m
      BY <1>2, <2>3
    <3>2. trace_stream'[u] = more
      BY <1>1, <1>5, <2>3
    <3> HIDE DEF stream
    <3> QED BY <3>1, <3>2 DEF Waiting
  <2>4. m \in emitted[u] => Waiting(trace_stream[u], m) \/ Placed(trace_file, u, m)
    BY DEF EmittedInv
  <2> QED BY <1>4, <2>1, <2>2, <2>3, <2>4
<1>6. CASE /\ trace_file' = trace_file \o more
           /\ trace_stream' = [trace_stream EXCEPT ![t] = <<>>]
  <2>1. CASE m \in emitted[u] /\ Placed(trace_file, u, m)
    BY <1>1, <1>2, <1>6, <2>1, PlacedStays
  <2>2. ASSUME NEW j \in DOMAIN more PROVE Placed(trace_file', t, more[j])
    <3>1. \A k \in DOMAIN more : more[k].tid = t /\ more[k].what = "tf" => j <= k
      BY <1>2, <1>3
    <3> QED BY <1>1, <1>2, <1>3, <1>6, <3>1, PlacedBehind
  <2>3. CASE u = t /\ m \in emitted[u] /\ Waiting(trace_stream[u], m)
    <3>1. PICK j \in DOMAIN stream : stream[j] = m
      BY <2>3 DEF Waiting
    <3>2. j \in DOMAIN more /\ more[j] = m
      BY <1>2, <3>1
    <3> QED BY <2>2, <2>3, <3>2
  <2>4. CASE u # t /\ m \in emitted[u] /\ Waiting(trace_stream[u], m)
    <3>1. trace_stream'[u] = trace_stream[u]
      BY <1>1, <1>6, <2>4
    <3> QED BY <2>4, <3>1
  <2>5. CASE u = t /\ m = line
    <3>1. Len(stream) + 1 \in DOMAIN more /\ more[Len(stream) + 1] = m
      BY <1>2, <2>5
    <3> QED BY <2>2, <2>5, <3>1
  <2>6. m \in emitted[u] => Waiting(trace_stream[u], m) \/ Placed(trace_file, u, m)
    BY DEF EmittedInv
  <2> QED BY <1>4, <2>1, <2>3, <2>4, <2>5, <2>6
<1> QED BY <1>5, <1>6 DEF Logs, more

LEMMA FlushesKeeps ==
  ASSUME PintoolInv, EmittedInv, NEW t \in Threads, NEW more \in Seq(Lines), Flushes(t, more)
  PROVE  EmittedInv'
<1>1. /\ trace_file \in Seq(Lines) /\ trace_stream \in [Threads -> Seq(Lines)]
  BY FileTypes DEF PintoolInv
<1>2. /\ trace_file' = trace_file \o more /\ emitted' = emitted
      /\ trace_stream' = [trace_stream EXCEPT ![t] = <<>>]
      /\ \A j \in DOMAIN trace_stream[t] : j \in DOMAIN more /\ more[j] = trace_stream[t][j]
      /\ \A k \in DOMAIN more : k \in DOMAIN trace_stream[t] \/ more[k].what # "tf"
  BY DEF Flushes
<1> SUFFICES ASSUME NEW u \in Threads, NEW m \in emitted[u]
             PROVE  Waiting(trace_stream'[u], m) \/ Placed(trace_file', u, m)
  BY <1>2 DEF EmittedInv
<1>3. CASE Placed(trace_file, u, m)
  BY <1>1, <1>2, <1>3, PlacedStays
<1>4. CASE Waiting(trace_stream[u], m) /\ u # t
  <2>1. trace_stream'[u] = trace_stream[u]
    BY <1>1, <1>2, <1>4
  <2> QED BY <1>4, <2>1
<1>5. CASE Waiting(trace_stream[u], m) /\ u = t
  <2>1. PICK j \in DOMAIN trace_stream[t] : trace_stream[t][j] = m
    BY <1>5 DEF Waiting
  <2>2. trace_stream[t] # <<>>
    BY <2>1
  <2>3. /\ \A i \in DOMAIN trace_file : ~(trace_file[i].tid = t /\ trace_file[i].what = "tf")
        /\ \A k \in DOMAIN trace_stream[t] : trace_stream[t][k].what # "tf"
    BY <2>2, NoFinishYet
  <2>4. \A k \in DOMAIN more : more[k].what # "tf"
    BY <1>2, <2>3
  <2>5. j \in DOMAIN more /\ more[j] = m
    BY <1>2, <2>1
  <2>6. Placed(trace_file \o more, t, more[j])
    BY <1>1, <2>3, <2>4, <2>5, PlacedBehind
  <2> QED BY <1>2, <1>5, <2>5, <2>6
<1> QED BY <1>3, <1>4, <1>5 DEF EmittedInv

\* A routine's line.
LEMMA TouchLogs ==
  ASSUME NEW t \in Threads, NEW line \in Lines, NEW force \in BOOLEAN,
         TouchBuffer(t, line, force), ~Closed(t)
  PROVE  Logs(t, line)
<1>1. emitted' = [emitted EXCEPT ![t] = @ \cup {line}]
  BY DEF TouchBuffer
<1> QED BY <1>1, TouchWrites DEF Logs

LEMMA LogStepHolds ==
  ASSUME PintoolInv, [Next]_vars
  PROVE  LogStep
<1> USE DEF PostBody
<1>1. CASE UNCHANGED vars
  BY <1>1 DEF LogStep, vars, buffers, file
<1>2. ASSUME NEW t \in Threads,
             \/ \E u \in Threads : Create(t, u)
             \/ \E kind \in {"access", "cas"}, F \in Footprints : MemoryAccessHeader(t, kind, F)
             \/ Fault(t) \/ ReleaseAddressLock(t) \/ AcquireAddressLock(t)
             \/ Execute(t) \/ ExecuteCAS(t) \/ PausedLock(t) \/ Restart(t)
      PROVE  LogStep
  <2>1. UNCHANGED <<emitted, trace_stream, trace_file>>
    BY <1>2 DEF Create, MemoryAccessHeader, Fault, ReleaseAddressLock, AcquireAddressLock,
                Execute, ExecuteCAS, PausedLock, Restart, buffers, file
  <2> QED BY <2>1 DEF LogStep
<1>3. ASSUME NEW t \in Threads,
             \/ \E kind \in SyncOps : EnterSync(t, kind)
             \/ TakeThreadLock(t) \/ ReleaseThreadLock(t) \/ StartThread(t) \/ LeaveSync(t)
      PROVE  LogStep
  <2>1. UNCHANGED <<emitted, trace_stream, trace_file>>
    BY <1>3 DEF EnterSync, TakeThreadLock, ReleaseThreadLock, StartThread, LeaveSync, buffers, file
  <2> QED BY <2>1 DEF LogStep
<1>4. ASSUME NEW t \in Threads, Footer(t) \/ CASFooter(t) PROVE LogStep
  <2> DEFINE line == Line(AccessTime(t), user_threadid[t], "m")
  <2>1. line \in Lines
    BY LineTypes DEF PintoolInv, TypeInv
  <2>2. TouchBuffer(t, line, FALSE) /\ ~Closed(t)
    BY <1>4 DEF Footer, CASFooter, Closed
  <2> HIDE DEF line
  <2>3. Logs(t, line)
    BY <2>1, <2>2, TouchLogs
  <2> QED BY <2>1, <2>3 DEF LogStep
<1>5. ASSUME NEW t \in Threads, FunctionRegistered(t) PROVE LogStep
  <2> DEFINE line == Line(lamport_timestamp[t] + 1, user_threadid[t], "f")
  <2>1. line \in Lines
    BY LineTypes DEF PintoolInv, TypeInv
  <2>2. TouchBuffer(t, line, FALSE) /\ ~Closed(t)
    BY <1>5 DEF FunctionRegistered, TraceLocally, Does, Idle, Closed
  <2> HIDE DEF line
  <2>3. Logs(t, line)
    BY <2>1, <2>2, TouchLogs
  <2> QED BY <2>1, <2>3 DEF LogStep
<1>6. ASSUME NEW t \in Threads, ContextChange(t) PROVE LogStep
  <2> DEFINE line == Line(lamport_timestamp[t] + 1, user_threadid[t], "ctxt_change")
  <2>1. line \in Lines
    BY LineTypes DEF PintoolInv, TypeInv
  <2>2. TouchBuffer(t, line, FALSE) /\ ~Closed(t)
    BY <1>6 DEF ContextChange, TraceLocally, Does, Idle, Closed
  <2> HIDE DEF line
  <2>3. Logs(t, line)
    BY <2>1, <2>2, TouchLogs
  <2> QED BY <2>1, <2>3 DEF LogStep
<1>7. ASSUME NEW t \in Threads, SyncBody(t) PROVE LogStep
  <2> DEFINE line == SyncLine(t, SyncTime(t))
  <2>1. TouchBuffer(t, line, TRUE) /\ ~Closed(t) /\ pc[t] = "body"
    BY <1>7 DEF SyncBody, Closed
  <2>2. line \in Lines
    <3>1. /\ time[t] \in Nat /\ op[t] \in SyncOps
          /\ user_threadid \in [Threads -> Threads \cup {Unregistered}]
      BY <2>1 DEF PintoolInv, TypeInv, TypeOK, SyncOpsInSync, SyncPlaces
    <3>2. user_threadid'[t] \in Threads \cup {Unregistered}
      BY <1>7, <3>1 DEF SyncBody
    <3>3. SyncTime(t) \in Nat
      BY <3>1 DEF SyncTime
    <3>4. \/ op[t] \in {"start", "register"}
          \/ op[t] = "fini"
          \/ op[t] = "unregistered_function"
          \/ op[t] \in {"start_roi", "end_roi"}
      BY <3>1 DEF SyncOps
    <3> QED BY <3>2, <3>3, <3>4 DEF SyncLine, Line, Lines
  <2> HIDE DEF line
  <2>3. Logs(t, line)
    BY <2>1, <2>2, TouchLogs
  <2> QED BY <2>2, <2>3 DEF LogStep
<1>8. ASSUME NEW t \in Threads, FinishThread(t) PROVE LogStep
  <2>1. trace_stream[t] \in Seq(Lines)
    BY FileTypes DEF PintoolInv
  <2>2. Flushes(t, trace_stream[t])
    BY <1>8, <2>1 DEF FinishThread, Flushes
  <2> QED BY <2>1, <2>2 DEF LogStep
<1>9. ASSUME NEW t \in Threads, NEW u \in Threads, FlushOther(t, u) PROVE LogStep
  <2> DEFINE more == SyncedStream(u, time[t])
  <2>1. emitted' = emitted
    BY <1>9 DEF FlushOther
  <2>2. \/ UNCHANGED <<trace_stream, trace_file>>
        \/ /\ trace_file' = trace_file \o more
           /\ trace_stream' = [trace_stream EXCEPT ![u] = <<>>]
    BY <1>9 DEF FlushOther, file
  <2>3. /\ trace_stream[u] \in Seq(Lines) /\ time[t] \in Nat
        /\ user_threadid[u] \in Threads \cup {Unregistered}
    BY DEF PintoolInv, TypeInv, TypeOK
  <2>4. /\ more \in Seq(Lines)
        /\ \A j \in DOMAIN trace_stream[u] : j \in DOMAIN more /\ more[j] = trace_stream[u][j]
        /\ \A k \in DOMAIN more : k \in DOMAIN trace_stream[u] \/ more[k].what # "tf"
    <3> DEFINE stream == trace_stream[u]
               line == Line(time[t], user_threadid[u], "thread_sync")
    <3>1. line \in Lines /\ line.what # "tf"
      BY <2>3 DEF Line, Lines
    <3>2. more = stream \/ more = Append(stream, line)
      BY DEF SyncedStream
    <3> HIDE DEF more, stream, line
    <3>3. stream \in Seq(Lines)
      BY <2>3 DEF stream
    <3>4. Len(stream) \in Nat /\ DOMAIN stream = 1 .. Len(stream)
      BY <3>3, LenProperties
    <3>5. /\ Append(stream, line) \in Seq(Lines) /\ Len(Append(stream, line)) = Len(stream) + 1
          /\ \A j \in 1 .. Len(stream) : Append(stream, line)[j] = stream[j]
          /\ Append(stream, line)[Len(stream) + 1] = line
      BY <3>1, <3>3, AppendProperties
    <3>6. DOMAIN Append(stream, line) = 1 .. Len(stream) + 1
      BY <3>5, LenProperties
    <3>7. /\ more \in Seq(Lines)
          /\ \A j \in DOMAIN stream : j \in DOMAIN more /\ more[j] = stream[j]
          /\ \A k \in DOMAIN more : k \in DOMAIN stream \/ more[k].what # "tf"
      BY <3>1, <3>2, <3>3, <3>4, <3>5, <3>6
    <3> QED BY <3>7 DEF stream
  <2> HIDE DEF more
  <2>5. CASE UNCHANGED <<trace_stream, trace_file>>
    BY <2>1, <2>5 DEF LogStep
  <2>6. CASE /\ trace_file' = trace_file \o more
             /\ trace_stream' = [trace_stream EXCEPT ![u] = <<>>]
    <3>1. Flushes(u, more)
      BY <2>1, <2>4, <2>6 DEF Flushes
    <3> QED BY <2>4, <3>1 DEF LogStep
  <2> QED BY <2>2, <2>5, <2>6
<1>10. CASE Terminated
  BY <1>1, <1>10 DEF Terminated
<1> QED
  BY <1>1, <1>2, <1>3, <1>4, <1>5, <1>6, <1>7, <1>8, <1>9, <1>10 DEF Next, Choice, Continue

LEMMA EmittedInvStep ==
  ASSUME PintoolInv, EmittedInv, [Next]_vars
  PROVE  EmittedInv'
<1>1. CASE UNCHANGED <<emitted, trace_stream, trace_file>>
  BY <1>1 DEF EmittedInv
<1> QED BY <1>1, LogStepHolds, LogsKeeps, FlushesKeeps DEF LogStep

LEMMA EmittedInvInit == Init => EmittedInv
  BY DEF Init, EmittedInv

\* In a file that meets the contract no line occurs twice: the lines of a
\* thread have different times.
LEMMA NoLineTwice ==
  ASSUME NEW content \in Seq(Lines), Contract!WellFormed(content),
         NEW i \in DOMAIN content, NEW k \in DOMAIN content, i < k
  PROVE  content[i] # content[k]
<1> DEFINE before == SubSeq(content, 1, k - 1)
<1>1. /\ before \in Seq(Lines) /\ DOMAIN before = 1 .. k - 1
      /\ \A n \in 1 .. k - 1 : n \in DOMAIN content /\ before[n] = content[n]
  BY Before
<1>2. Contract!MayFollow(before, content[k])
  BY DEF Contract!WellFormed
<1> HIDE DEF before
<1>3. i \in 1 .. k - 1 /\ i \in DOMAIN before
  <2>1. i \in Nat /\ k \in Nat /\ i >= 1
    BY LenProperties
  <2> QED BY <1>1, <2>1
<1>4. before[i] = content[i] /\ content[i].time \in Nat /\ content[k].time \in Nat
  BY <1>1, <1>3, FileLines
<1>5. content[k].time > Contract!LastOf(before, content[k].tid)
  BY <1>2 DEF Contract!MayFollow
<1>6. /\ Contract!LastOf(before, content[k].tid) \in Nat
      /\ before[i].tid = content[k].tid =>
           before[i].time <= Contract!LastOf(before, content[k].tid)
  BY <1>1, <1>3, LastOfIsLast
<1>7. ASSUME content[i] = content[k] PROVE FALSE
  <2>1. before[i].tid = content[k].tid /\ before[i].time = content[k].time
    BY <1>4, <1>7
  <2> QED BY <1>4, <1>5, <1>6, <2>1
<1> QED BY <1>7

\* A finished thread has no line left in its buffer, and the file has every
\* line it ever put there, once and not behind its finish line, which is later
\* than the last access it performed.
THEOREM NothingIsLost ==
  Cooperative => (Spec /\ []NeverPaused => []FinishedIsInFile)
<1> SUFFICES ASSUME Cooperative PROVE Spec /\ []NeverPaused => []FinishedIsInFile
  OBVIOUS
<1>1. PintoolInv /\ EmittedInv /\ NeverPaused' /\ [Next]_vars => PintoolInv' /\ EmittedInv'
  BY PintoolInvStep, EmittedInvStep
<1>2. ASSUME PintoolInv, EmittedInv PROVE FinishedIsInFile
  <2> SUFFICES ASSUME NEW t \in Threads, pc[t] = "finished"
               PROVE  /\ trace_stream[t] = <<>>
                      /\ \A line \in emitted[t] : \E i \in DOMAIN trace_file :
                           /\ trace_file[i] = line
                           /\ \A k \in DOMAIN trace_file :
                                /\ trace_file[k] = line => k = i
                                /\ trace_file[k].tid = t /\ trace_file[k].what = "tf" => i <= k
                      /\ user_threadid[t] # Unregistered =>
                           /\ t \notin Contract!ActiveIn(trace_file)
                           /\ performed[t] < Contract!LastOf(trace_file, t)
    BY DEF FinishedIsInFile
  <2>1. Closed(t)
    BY DEF Closed
  <2>2. trace_stream[t] = <<>>
    BY <1>2, <2>1 DEF PintoolInv, FileInv, StreamInv
  <2>3. ASSUME IsRegistered(t)
        PROVE  /\ t \notin Contract!ActiveIn(trace_file)
               /\ performed[t] < Contract!LastOf(trace_file, t)
    <3>1. trace_file \in Seq(Lines) /\ performed[t] \in Nat
      BY <1>2, FileTypes DEF PintoolInv
    <3>2. PICK i \in DOMAIN trace_file : OnlyLine(i, t, "tr")
      BY <1>2, <2>3 DEF PintoolInv, FileInv, RegisterLines
    <3>3. PICK j \in DOMAIN trace_file : OnlyLine(j, t, "tf") /\ performed[t] < trace_file[j].time
      BY <1>2, <2>1, <2>3 DEF PintoolInv, FileInv, FinishLines
    <3>4. Contract!Count(trace_file, t, "tr") = 1
      BY <3>1, <3>2, CountOfOne DEF OnlyLine
    <3>5. Contract!Count(trace_file, t, "tf") = 1
      BY <3>1, <3>3, CountOfOne DEF OnlyLine
    <3>6. t \notin Contract!ActiveIn(trace_file)
      BY <3>4, <3>5 DEF Contract!ActiveIn
    <3>7. trace_file[j].time <= Contract!LastOf(trace_file, t)
          /\ Contract!LastOf(trace_file, t) \in Nat /\ trace_file[j].time \in Nat
      BY <3>1, <3>3, LastOfIsLast, FileLines DEF OnlyLine
    <3> QED BY <3>1, <3>3, <3>6, <3>7
  <2>4. ASSUME NEW line \in emitted[t]
        PROVE  \E i \in DOMAIN trace_file :
                 /\ trace_file[i] = line
                 /\ \A k \in DOMAIN trace_file :
                      /\ trace_file[k] = line => k = i
                      /\ trace_file[k].tid = t /\ trace_file[k].what = "tf" => i <= k
    <3>1. ~Waiting(trace_stream[t], line)
      BY <2>2 DEF Waiting
    <3>a. Waiting(trace_stream[t], line) \/ Placed(trace_file, t, line)
      BY <1>2 DEF EmittedInv
    <3>b. Placed(trace_file, t, line)
      BY <3>1, <3>a
    <3>2. PICK i \in DOMAIN trace_file :
            /\ trace_file[i] = line
            /\ \A k \in DOMAIN trace_file :
                 trace_file[k].tid = t /\ trace_file[k].what = "tf" => i <= k
      BY <3>b DEF Placed
    <3>3. trace_file \in Seq(Lines) /\ Contract!WellFormed(trace_file)
      BY <1>2, FileTypes DEF PintoolInv, FileInv, MergeContract
    <3>4. ASSUME NEW k \in DOMAIN trace_file, trace_file[k] = line PROVE k = i
      <4>1. i \in Nat /\ k \in Nat
        BY <3>3, LenProperties
      <4>2. ~(i < k) /\ ~(k < i)
        BY <3>2, <3>3, <3>4, NoLineTwice
      <4> QED BY <4>1, <4>2
    <3> QED BY <3>2, <3>4
  <2> QED BY <2>2, <2>3, <2>4 DEF IsRegistered
<1> QED BY <1>1, <1>2, PintoolInvInit, EmittedInvInit, PTL DEF Spec
=============================================================================

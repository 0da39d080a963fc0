--------------------------- MODULE IncTestProofs ---------------------------
(***************************************************************************)
(* Theorems about the test programs: for any number of threads and any     *)
(* total both implement an atomic addition, and main's assert holds, under *)
(* the pintool as without it.                                              *)
(*                                                                         *)
(* And about their simulators: whatever the knobs, they come to the counts *)
(* of the program whose trace they read, and no assert of theirs fails.    *)
(* For this the lines on the way from the program to the simulator are     *)
(* read in thought: what the simulator will have come to at their end      *)
(* matches the program at every moment (TraceInv).                         *)
(***************************************************************************)
EXTENDS IncTrace, TLAPS, FiniteSetTheorems, WellFoundedInduction, SequenceTheorems

USE ArgumentsAssumption

\* The threads that have left their loop.
PastLoop == {"bar3", "bar4", "return", "ended"}
Past == {t \in Threads : pc[t] \in PastLoop}

TypeInv ==
  /\ cas \in BOOLEAN
  /\ pc \in [Parties -> Places]
  /\ arrived \in [1 .. 4 -> SUBSET Parties]
  /\ counter \in Nat
  /\ orig \in [Threads -> Nat] /\ old_val \in [Threads -> Nat]
  /\ count \in [Threads -> Nat] /\ even_count \in [Threads -> Nat]
  /\ fail_count \in [Threads -> Nat]

\* Nobody leaves the loop before the counter has reached the limit, and each
\* increment from there on is the last of its thread.
LimitInv ==
  /\ counter <= stop_count => Past = {}
  /\ counter > stop_count => counter = stop_count + Cardinality(Past)

\* Where main checks the counter, and after, every thread has ended.
JoinedInv ==
  /\ pc[Main] \in {"check", "free", "done"} => \A t \in Threads : pc[t] = "ended"
  /\ pc[Main] # "failed"

\* A thread in its loop has not seen the limit.
SeenInv == \A t \in Threads : t \notin Past => old_val[t] < stop_count

IncInv == TypeInv /\ LimitInv /\ JoinedInv /\ SeenInv

-----------------------------------------------------------------------------
\* The assumptions of main on its arguments.
LEMMA Constants ==
  /\ stop_count \in Nat /\ stop_count > 0
  /\ Main \in Parties /\ Main \notin Threads
  /\ Threads \subseteq Parties
  /\ IsFiniteSet(Threads) /\ Cardinality(Threads) = num_threads
<1>1. IsFiniteSet(0 .. num_threads - 1) /\ Cardinality(0 .. num_threads - 1) = num_threads
  BY FS_Interval
<1> QED BY <1>1 DEF stop_count, Main, Parties, Threads

\* The four barriers, one by one.
LEMMA GatesDiffer ==
  \A b \in 1 .. 4 : Gate[b] = IF b = 1 THEN "bar1" ELSE IF b = 2 THEN "bar2"
                              ELSE IF b = 3 THEN "bar3" ELSE "bar4"
BY DEF Gate

\* The places of the programs, one by one.
LEMMA AllPlaces ==
  Places = {"malloc", "create", "none", "begin", "loop", "cas", "return", "ended", "start_roi",
            "end_roi", "join", "check", "free", "done", "failed", "bar1", "bar2", "bar3", "bar4"}
<1>1. {Gate[b] : b \in 1 .. 4} = {Gate[1], Gate[2], Gate[3], Gate[4]}
  OBVIOUS
<1>2. {Gate[b] : b \in 1 .. 4} = {"bar1", "bar2", "bar3", "bar4"}
  BY <1>1 DEF Gate
<1> QED BY <1>2 DEF Places

\* Adding a thread to those past the loop is counted.
LEMMA OnePast ==
  ASSUME NEW S \in SUBSET Threads, NEW t \in Threads
  PROVE  /\ IsFiniteSet(S) /\ Cardinality(S) \in Nat /\ Cardinality(S) <= num_threads
         /\ t \notin S => Cardinality(S \cup {t}) = Cardinality(S) + 1
<1>1. IsFiniteSet(S) /\ Cardinality(S) <= num_threads
  BY Constants, FS_Subset
<1>2. Cardinality(S) \in Nat
  BY <1>1, FS_CardinalityType
<1>3. t \notin S => Cardinality(S \cup {t}) = Cardinality(S) + 1
  BY <1>1, FS_AddElement
<1> QED BY <1>1, <1>2, <1>3

-----------------------------------------------------------------------------
\* The invariant holds when the program starts.
LEMMA InitInv == Init => IncInv
<1> SUFFICES ASSUME Init PROVE IncInv
  OBVIOUS
<1>1. TypeInv
  BY DEF Init, TypeInv, Places, Parties, Main
<1>2. Past = {}
  BY Constants DEF Init, Past, PastLoop
<1>3. LimitInv /\ SeenInv
  BY <1>2, Constants DEF Init, LimitInv, SeenInv
<1>4. JoinedInv
  BY Constants DEF Init, JoinedInv
<1> QED BY <1>1, <1>3, <1>4 DEF IncInv

\* A step that neither touches the counter nor leaves a loop.
QuietStep ==
  /\ UNCHANGED <<cas, counter, old_val>>
  /\ \A t \in Threads : t \in Past' <=> t \in Past
  /\ \A t \in Threads : pc[t] = "ended" => pc'[t] = "ended"
  /\ pc'[Main] \in {"check", "free", "done", "failed"} =>
       \/ pc'[Main] = pc[Main]
       \/ pc[Main] \in {"join", "check", "free"} /\ pc'[Main] # "failed"
          /\ \A t \in Threads : pc[t] = "ended"

\* A step that makes no increment keeps the invariant.
LEMMA QuietSteps ==
  ASSUME IncInv, TypeInv', QuietStep
  PROVE  IncInv'
<1>1. Past' = Past
  BY DEF QuietStep, Past
<1>2. LimitInv'
  BY <1>1 DEF IncInv, LimitInv, QuietStep
<1>3. SeenInv'
  BY <1>1 DEF IncInv, SeenInv, QuietStep
<1>4. JoinedInv'
  BY DEF IncInv, JoinedInv, QuietStep
<1> QED BY <1>2, <1>3, <1>4 DEF IncInv

\* The addition of FetchAdd and of a compare-and-swap that succeeds.
Increment(t) ==
  /\ pc[t] \in {"loop", "cas"}
  /\ counter' = counter + 1
  /\ CountInc(t, counter)

\* An increment keeps the invariant, and is the atomic addition.
LEMMA Increments ==
  ASSUME IncInv, NEW t \in Threads, Increment(t), UNCHANGED <<cas, arrived, orig, fail_count>>
  PROVE  IncInv' /\ Shared!Add(t)
<1> USE Constants DEF IncInv, TypeInv, Increment, CountInc, GoTo
<1>1. TypeInv'
  <2>1. pc' \in [Parties -> Places]
    BY AllPlaces
  <2> QED BY <2>1
<1>2. t \notin Past
  BY DEF Past, PastLoop
<1>3. IF counter < stop_count THEN Past' = Past ELSE Past' = Past \cup {t}
  BY <1>2 DEF Past, PastLoop, Again
<1>4. Past \subseteq Threads
  BY DEF Past
<1>5. /\ IsFiniteSet(Past) /\ Cardinality(Past) \in Nat
      /\ Cardinality(Past \cup {t}) = Cardinality(Past) + 1
  BY <1>2, <1>4, OnePast
<1>6. LimitInv'
  <2>1. CASE counter < stop_count
    BY <2>1, <1>3 DEF LimitInv
  <2> counter' = counter + 1 /\ counter \in Nat
    OBVIOUS
  <2> HIDE DEF IncInv, TypeInv, Increment, CountInc, GoTo
  <2>2. CASE counter = stop_count
    <3>1. Past = {}
      BY <2>2 DEF LimitInv, IncInv
    <3>2. Cardinality(Past) = 0
      BY <3>1, FS_EmptySet
    <3>3. Cardinality(Past') = 1
      BY <2>2, <3>2, <1>3, <1>5
    <3> QED BY <2>2, <3>3 DEF LimitInv
  <2>3. CASE counter > stop_count
    <3>1. counter = stop_count + Cardinality(Past)
      BY <2>3 DEF LimitInv, IncInv
    <3>2. Cardinality(Past') = Cardinality(Past) + 1
      BY <2>3, <1>3, <1>5
    <3> QED BY <2>3, <3>1, <3>2, <1>5 DEF LimitInv
  <2> QED BY <2>1, <2>2, <2>3
<1>7. SeenInv'
  BY <1>3 DEF SeenInv
<1>8. JoinedInv'
  BY DEF JoinedInv
<1>9. old_val[t] < stop_count
  BY <1>2 DEF SeenInv
<1>10. Shared!Add(t)
  BY <1>9 DEF Shared!Add
<1> QED BY <1>1, <1>6, <1>7, <1>8, <1>10
\* Every other step is quiet.
LEMMA Steps ==
  ASSUME IncInv, Next
  PROVE  \/ TypeInv' /\ QuietStep
         \/ \E t \in Threads : Increment(t) /\ UNCHANGED <<cas, arrived, orig, fail_count>>
<1> USE Constants, AllPlaces DEF IncInv, TypeInv, GoTo, QuietStep, Past, PastLoop, counts
<1>1. CASE MainStep
  <2>1. CASE Malloc
    BY <2>1 DEF Malloc
  <2>2. CASE \E t \in Threads : Create(t)
    BY <2>2 DEF Create
  <2>3. CASE StartRoi
    BY <2>3 DEF StartRoi
  <2>4. CASE EndRoi
    BY <2>4 DEF EndRoi
  <2>5. CASE Join
    BY <2>5 DEF Join
  <2>6. CASE Check
    <3>1. \A t \in Threads : pc[t] = "ended"
      BY <2>6 DEF Check, JoinedInv
    <3>2. {t \in Threads : pc[t] \in PastLoop} = Threads
      BY <3>1
    <3>3. Threads # {}
      <4>1. 0 \in Threads
        BY DEF Threads
      <4> QED BY <4>1
    <3>4. counter = stop_count + num_threads
      BY <3>2, <3>3 DEF LimitInv
    <3> QED BY <2>6, <3>1, <3>4 DEF Check
  <2>7. CASE Free
    <3>1. \A t \in Threads : pc[t] = "ended"
      BY <2>7 DEF Free, JoinedInv
    <3> QED BY <2>7, <3>1 DEF Free
  <2> QED BY <1>1, <2>1, <2>2, <2>3, <2>4, <2>5, <2>6, <2>7 DEF MainStep
<1>2. ASSUME NEW t \in Threads, ThreadStep(t)
      PROVE  \/ TypeInv' /\ QuietStep
             \/ Increment(t) /\ UNCHANGED <<cas, arrived, orig, fail_count>>
  <2>1. CASE Register(t)
    BY <2>1 DEF Register
  <2>2. CASE FetchAdd(t)
    BY <2>2 DEF FetchAdd, Increment
  <2>3. CASE ReadCounter(t)
    BY <2>3 DEF ReadCounter
  <2>4. CASE CompareAndSwap(t) /\ Swaps(t)
    BY <2>4 DEF CompareAndSwap, Swaps, Increment
  <2>5. CASE CompareAndSwap(t) /\ ~Swaps(t)
    BY <2>5 DEF CompareAndSwap
  <2>6. CASE Return(t)
    BY <2>6 DEF Return
  <2> QED BY <1>2, <2>1, <2>2, <2>3, <2>4, <2>5, <2>6 DEF ThreadStep
<1>3. ASSUME NEW p \in Parties, BarrierStep(p)
      PROVE  TypeInv' /\ QuietStep
  <2>1. PICK b \in 1 .. 4 : Arrive(p, b) \/ Pass(p, b)
    BY <1>3 DEF BarrierStep
  <2>2. CASE Arrive(p, b)
    BY <2>2 DEF Arrive
  <2>3. CASE Pass(p, b)
    <3>1. /\ pc[p] = Gate[b] /\ pc' = [pc EXCEPT ![p] = AfterGate(p, b)]
          /\ UNCHANGED <<cas, arrived, counter, orig, old_val, count, even_count, fail_count>>
      BY <2>3 DEF Pass
    <3>2. AfterGate(p, b) =
            IF p = Main
            THEN (IF b = 1 THEN "start_roi" ELSE IF b = 2 THEN "bar3"
                  ELSE IF b = 3 THEN "end_roi" ELSE "join")
            ELSE (IF b = 1 THEN "bar2" ELSE IF b = 2 THEN "loop"
                  ELSE IF b = 3 THEN "bar4" ELSE "return")
      BY DEF AfterGate
    <3> QED BY <3>1, <3>2, GatesDiffer
  <2> QED BY <2>1, <2>2, <2>3
<1> QED BY <1>1, <1>2, <1>3 DEF Next

\* Every step keeps the invariant.
LEMMA NextInv == IncInv /\ [Next]_programVars => IncInv'
<1> SUFFICES ASSUME IncInv, [Next]_programVars PROVE IncInv'
  OBVIOUS
<1>1. CASE UNCHANGED programVars
  BY <1>1 DEF programVars, counts, IncInv, TypeInv, LimitInv, JoinedInv, SeenInv, Past
<1>2. CASE Next
  BY <1>2, Steps, QuietSteps, Increments
<1> QED BY <1>1, <1>2

\* The inductive invariant: how far the counter is past the limit is the
\* number of threads that have left their loops.
THEOREM LimitIsKept == Spec => []IncInv
BY InitInv, NextInv, PTL DEF Spec

\* The invariant bounds the counter by the total.
LEMMA InvTypes == IncInv => ProgramTypeOK
<1> SUFFICES ASSUME IncInv PROVE counter <= InsertTotal
  BY Constants DEF IncInv, TypeInv, ProgramTypeOK, stop_count
<1>1. Past \subseteq Threads
  BY DEF Past
<1>2. Cardinality(Past) \in Nat /\ Cardinality(Past) <= num_threads
  BY <1>1, OnePast, Constants, FS_Subset, FS_CardinalityType
<1> QED BY <1>2, Constants DEF IncInv, TypeInv, LimitInv, stop_count

\* The type invariant of the programs; in particular, the counter never
\* passes the total that was asked for.
THEOREM ProgramTypeCorrect == Spec => []ProgramTypeOK
BY LimitIsKept, InvTypes, PTL

\* For any number of threads and any total, main's assert on the counter
\* holds: the threads make exactly as many increments as they were asked for.
THEOREM TotalIsExact == Spec => []InsertsAll
<1>1. IncInv => InsertsAll
  BY DEF IncInv, JoinedInv, InsertsAll
<1> QED BY <1>1, LimitIsKept, PTL

\* inc's instruction and inc_cas's loop implement the same atomic addition,
\* which no thread goes on with after it has seen the limit.
THEOREM IncrementsAreAtomic == Spec => IsFetchAndAdd
<1>1. Init => Shared!Init
  BY DEF Init, Shared!Init
<1>2. ASSUME IncInv, [Next]_programVars PROVE [Shared!Next]_<<counter, old_val>>
  <2>1. CASE UNCHANGED programVars
    BY <2>1 DEF programVars, counts
  <2>2. CASE Next
    BY <1>2, <2>2, Steps, Increments DEF QuietStep, Shared!Next
  <2> QED BY <1>2, <2>1, <2>2
<1> QED BY <1>1, <1>2, LimitIsKept, PTL DEF Spec, IsFetchAndAdd, Shared!Spec

-----------------------------------------------------------------------------
\* Tracing the programs adds nothing to what they do.
LEMMA TracedSteps == TraceNext => [Next]_programVars
<1> SUFFICES ASSUME TraceNext PROVE [Next]_programVars
  OBVIOUS
<1>1. ASSUME TracedMainStep PROVE MainStep
  BY <1>1 DEF TracedMainStep, Traces, MainStep
<1>2. ASSUME NEW t \in Threads, TracedThreadStep(t) PROVE ThreadStep(t)
  BY <1>2 DEF TracedThreadStep, Traces, ThreadStep
<1>3. ASSUME NEW t \in Threads, ContextChange(t) PROVE UNCHANGED programVars
  BY <1>3 DEF ContextChange
<1>4. ASSUME NEW p \in Parties, TracedBarrierStep(p) PROVE BarrierStep(p)
  BY <1>4 DEF TracedBarrierStep, Traces, BarrierStep
<1>5. ASSUME ReadLine PROVE UNCHANGED programVars
  BY <1>5 DEF ReadLine
<1>6. ASSUME Over PROVE UNCHANGED programVars
  BY <1>6 DEF Over, vars
<1> QED BY <1>1, <1>2, <1>3, <1>4, <1>5, <1>6 DEF TraceNext, Next

\* Under the pintool the programs do what they do without it, whatever the
\* knobs, the interruptions and the reader of the trace.
THEOREM TracedProgramIsProgram == TraceSpec => Spec /\ []InsertsAll /\ IsFetchAndAdd
<1>1. TraceInit => Init
  BY DEF TraceInit
<1>2. UNCHANGED vars => UNCHANGED programVars
  BY DEF vars
<1>3. TraceSpec => Spec
  BY <1>1, <1>2, TracedSteps, PTL DEF TraceSpec, Spec
<1> QED BY <1>3, TotalIsExact, IncrementsAreAtomic, PTL

(***************************************************************************)
(* Sums of the counts of threads                                           *)
(***************************************************************************)
\* Induction, for a set of numbers.
LEMMA Induction ==
  ASSUME NEW S, 0 \in S, \A n \in Nat : n \in S => n + 1 \in S
  PROVE  Nat \subseteq S
<1> DEFINE R == {p \in Nat \X Nat : p[1] < p[2]}
           rest == Nat \ S
<1> SUFFICES ASSUME rest # {} PROVE FALSE
  OBVIOUS
<1>1. PICK n \in rest : \A m \in rest : <<m, n>> \notin R
  <2>1. IsWellFoundedOn(R, Nat)
    BY NatLessThanWellFounded DEF OpToRel, IsWellFoundedOn
  <2>2. rest \subseteq Nat
    OBVIOUS
  <2> HIDE DEF R, rest
  <2> QED BY <2>1, <2>2, WFMin
<1>2. n \in Nat /\ n \notin S /\ n # 0
  BY <1>1
<1>3. n - 1 \in Nat /\ n - 1 < n
  BY <1>2
<1>4. n - 1 \in S
  BY <1>1, <1>2, <1>3
<1>5. (n - 1) + 1 = n
  BY <1>2
<1> QED BY <1>2, <1>3, <1>4, <1>5

Any(s) == CHOOSE x \in s : TRUE

\* The sets of at most n elements, and the function that sums f over them.
Small(S, n) == {s \in SUBSET S : Cardinality(s) <= n}

IsTotal(h, f, sets) == h = [s \in sets |-> IF s = {} THEN 0 ELSE f[Any(s)] + h[s \ {Any(s)}]]

LEMMA OneLess ==
  ASSUME NEW S, IsFiniteSet(S), NEW n \in Nat, NEW s \in Small(S, n + 1), s # {}
  PROVE  Any(s) \in s /\ s \ {Any(s)} \in Small(S, n)
<1>1. Any(s) \in s
  BY DEF Any
<1>2. s \subseteq S /\ IsFiniteSet(s) /\ Cardinality(s) <= n + 1
  BY FS_Subset DEF Small
<1>3. /\ Cardinality(s) \in Nat
      /\ Cardinality(s \ {Any(s)}) = Cardinality(s) - 1
  BY <1>1, <1>2, FS_CardinalityType, FS_RemoveElement
<1>4. Cardinality(s \ {Any(s)}) <= n
  BY <1>2, <1>3
<1> QED BY <1>1, <1>2, <1>4 DEF Small

LEMMA SmallSets ==
  ASSUME NEW S, IsFiniteSet(S)
  PROVE  /\ \A n \in Nat : Small(S, n) \subseteq Small(S, n + 1)
         /\ Small(S, 0) = {{}}
         /\ Cardinality(S) \in Nat /\ Small(S, Cardinality(S)) = SUBSET S
<1>1. \A s \in SUBSET S : /\ IsFiniteSet(s) /\ Cardinality(s) \in Nat
                          /\ Cardinality(s) <= Cardinality(S)
                          /\ Cardinality(s) = 0 <=> s = {}
  BY FS_Subset, FS_CardinalityType, FS_EmptySet
<1>2. ASSUME NEW n \in Nat PROVE Small(S, n) \subseteq Small(S, n + 1)
  BY <1>1 DEF Small
<1>3. \A s \in SUBSET S : Cardinality(s) <= 0 <=> s = {}
  BY <1>1
<1>4. Small(S, 0) = {{}}
  BY <1>3 DEF Small
<1>5. Cardinality(S) \in Nat /\ Small(S, Cardinality(S)) = SUBSET S
  BY <1>1, FS_CardinalityType DEF Small
<1> QED BY <1>2, <1>4, <1>5

LEMMA TotalExists ==
  ASSUME NEW f, NEW S, IsFiniteSet(S)
  PROVE  \A n \in Nat : \E h : IsTotal(h, f, Small(S, n))
<1> DEFINE N == {n \in Nat : \E h : IsTotal(h, f, Small(S, n))}
<1>1. 0 \in N
  <2> DEFINE h == [s \in {{}} |-> 0]
  <2>1. h = [s \in {{}} |-> IF s = {} THEN 0 ELSE f[Any(s)] + h[s \ {Any(s)}]]
    OBVIOUS
  <2> HIDE DEF h
  <2>2. IsTotal(h, f, Small(S, 0))
    BY <2>1, SmallSets DEF IsTotal
  <2> QED BY <2>2
<1>2. ASSUME NEW n \in Nat, n \in N PROVE n + 1 \in N
  <2>1. PICK h : IsTotal(h, f, Small(S, n))
    BY <1>2
  <2> DEFINE A == Small(S, n)
             B == Small(S, n + 1)
             g == [s \in B |-> IF s = {} THEN 0 ELSE f[Any(s)] + h[s \ {Any(s)}]]
  <2>2. \A s \in B : s # {} => s \ {Any(s)} \in A
    BY OneLess
  <2>3. A \subseteq B
    BY SmallSets
  <2>4. \A s \in A : h[s] = IF s = {} THEN 0 ELSE f[Any(s)] + h[s \ {Any(s)}]
    BY <2>1 DEF IsTotal
  <2> HIDE DEF A, B
  <2>5. \A s \in A : g[s] = h[s]
    BY <2>3, <2>4
  <2>6. \A s \in B : g[s] = IF s = {} THEN 0 ELSE f[Any(s)] + g[s \ {Any(s)}]
    BY <2>2, <2>5
  <2>7. g = [s \in B |-> g[s]]
    OBVIOUS
  <2> HIDE DEF g
  <2>8. g = [s \in B |-> IF s = {} THEN 0 ELSE f[Any(s)] + g[s \ {Any(s)}]]
    BY <2>6, <2>7
  <2> QED BY <2>8 DEF IsTotal, B
<1> HIDE DEF N
<1>3. Nat \subseteq N
  BY <1>1, <1>2, Induction
<1> QED BY <1>3 DEF N

LEMMA TotalIs ==
  ASSUME NEW S, IsFiniteSet(S), NEW f, DOMAIN f = S
  PROVE  \E h : IsTotal(h, f, SUBSET S) /\ Total(f) = h[S]
<1> DEFINE iter == CHOOSE h : h = [s \in SUBSET DOMAIN f |->
                     IF s = {} THEN 0
                     ELSE f[CHOOSE x \in s : TRUE] + h[s \ {CHOOSE x \in s : TRUE}]]
<1>1. Total(f) = iter[DOMAIN f]
  BY DEF Total, MapThenSumSet, MapThenFoldSet
<1>2. PICK g : IsTotal(g, f, SUBSET S)
  <2>1. Cardinality(S) \in Nat /\ Small(S, Cardinality(S)) = SUBSET S
    BY SmallSets
  <2>2. \E h : IsTotal(h, f, Small(S, Cardinality(S)))
    BY <2>1, TotalExists
  <2> QED BY <2>1, <2>2
<1>3. g = [s \in SUBSET DOMAIN f |->
             IF s = {} THEN 0
             ELSE f[CHOOSE x \in s : TRUE] + g[s \ {CHOOSE x \in s : TRUE}]]
  BY <1>2 DEF IsTotal, Any
<1>4. iter = [s \in SUBSET DOMAIN f |->
                IF s = {} THEN 0
                ELSE f[CHOOSE x \in s : TRUE] + iter[s \ {CHOOSE x \in s : TRUE}]]
  BY <1>3
<1>5. IsTotal(iter, f, SUBSET S)
  BY <1>4 DEF IsTotal, Any
<1> HIDE DEF iter
<1> QED BY <1>1, <1>5

\* Two functions that differ by one at one place.
LEMMA TotalsDiffer ==
  ASSUME NEW S, IsFiniteSet(S), NEW f \in [S -> Nat], NEW x \in S,
         NEW g \in [S -> Nat], \A y \in S : g[y] = IF y = x THEN f[y] + 1 ELSE f[y],
         NEW h, IsTotal(h, f, SUBSET S), NEW k, IsTotal(k, g, SUBSET S)
  PROVE  h[S] \in Nat /\ k[S] = h[S] + 1
<1> DEFINE Good(s) == h[s] \in Nat /\ k[s] = h[s] + (IF x \in s THEN 1 ELSE 0)
           N == {n \in Nat : \A s \in Small(S, n) : Good(s)}
<1>1. \A s \in SUBSET S :
        /\ h[s] = IF s = {} THEN 0 ELSE f[Any(s)] + h[s \ {Any(s)}]
        /\ k[s] = IF s = {} THEN 0 ELSE g[Any(s)] + k[s \ {Any(s)}]
  BY DEF IsTotal
<1>2. 0 \in N
  <2>1. Good({})
    <3>1. {} \in SUBSET S
      OBVIOUS
    <3>2. h[{}] = 0 /\ k[{}] = 0 /\ x \notin {}
      BY <1>1, <3>1
    <3> QED BY <3>2
  <2> HIDE DEF Good
  <2> QED BY <2>1, SmallSets
<1>3. ASSUME NEW n \in Nat, n \in N PROVE n + 1 \in N
  <2> SUFFICES ASSUME NEW s \in Small(S, n + 1) PROVE Good(s)
    BY <1>3
  <2>1. s \in SUBSET S
    BY DEF Small
  <2>2. CASE s = {}
    <3>1. h[s] = 0 /\ k[s] = 0 /\ x \notin s
      BY <1>1, <2>1, <2>2
    <3> QED BY <3>1
  <2>3. CASE s # {}
    <3> DEFINE y == Any(s)
               r == s \ {y}
    <3>1. y \in s /\ r \in Small(S, n)
      BY <2>3, OneLess
    <3>2. h[s] = f[y] + h[r] /\ k[s] = g[y] + k[r]
      BY <1>1, <2>1, <2>3
    <3>3. h[r] \in Nat /\ k[r] = h[r] + (IF x \in r THEN 1 ELSE 0)
      BY <1>3, <3>1
    <3>4. x \in r <=> x \in s /\ x # y
      OBVIOUS
    <3>5. y \in S
      BY <2>1, <3>1
    <3> HIDE DEF y, r
    <3>6. f[y] \in Nat /\ g[y] = IF y = x THEN f[y] + 1 ELSE f[y]
      BY <3>5
    <3> QED BY <3>1, <3>2, <3>3, <3>4, <3>6
  <2> QED BY <2>2, <2>3
<1> HIDE DEF N
<1>4. Nat \subseteq N
  BY <1>2, <1>3, Induction
<1>5. Cardinality(S) \in N
  BY <1>4, SmallSets
<1>6. Good(S)
  BY <1>5, SmallSets DEF N
<1> QED BY <1>6

\* One more at one place is one more in the sum.
LEMMA TotalPlus1 ==
  ASSUME NEW S, IsFiniteSet(S), NEW f \in [S -> Nat], NEW x \in S
  PROVE  Total(f) \in Nat /\ Total([f EXCEPT ![x] = @ + 1]) = Total(f) + 1
<1> DEFINE g == [f EXCEPT ![x] = @ + 1]
<1>1. g \in [S -> Nat] /\ \A y \in S : g[y] = IF y = x THEN f[y] + 1 ELSE f[y]
  OBVIOUS
<1> HIDE DEF g
<1>2. DOMAIN f = S /\ DOMAIN g = S
  BY <1>1
<1>3. PICK h : IsTotal(h, f, SUBSET S) /\ Total(f) = h[S]
  BY <1>2, TotalIs
<1>4. PICK k : IsTotal(k, g, SUBSET S) /\ Total(g) = k[S]
  BY <1>2, TotalIs
<1>5. h[S] \in Nat /\ k[S] = h[S] + 1
  <2>1. IsTotal(h, f, SUBSET S) /\ IsTotal(k, g, SUBSET S)
    BY <1>3, <1>4
  <2> QED BY <1>1, <2>1, TotalsDiffer
<1> QED BY <1>3, <1>4, <1>5 DEF g

LEMMA TotalOfZeros ==
  ASSUME NEW S, IsFiniteSet(S), NEW f, f = [x \in S |-> 0]
  PROVE  Total(f) = 0
<1>1. DOMAIN f = S
  OBVIOUS
<1>2. PICK h : IsTotal(h, f, SUBSET S) /\ Total(f) = h[S]
  BY <1>1, TotalIs
<1> DEFINE N == {n \in Nat : \A s \in Small(S, n) : h[s] = 0}
<1>3. \A s \in SUBSET S : h[s] = IF s = {} THEN 0 ELSE f[Any(s)] + h[s \ {Any(s)}]
  BY <1>2 DEF IsTotal
<1>4. 0 \in N
  BY <1>3, SmallSets
<1>5. ASSUME NEW n \in Nat, n \in N PROVE n + 1 \in N
  <2> SUFFICES ASSUME NEW s \in Small(S, n + 1), s # {} PROVE h[s] = 0
    <3>1. h[{}] = 0
      BY <1>3
    <3> QED BY <1>5, <3>1
  <2>1. s \in SUBSET S
    BY DEF Small
  <2>2. Any(s) \in s /\ s \ {Any(s)} \in Small(S, n)
    BY OneLess
  <2>3. f[Any(s)] = 0
    BY <2>1, <2>2
  <2>4. h[s \ {Any(s)}] = 0
    BY <1>5, <2>2
  <2>5. h[s] = f[Any(s)] + h[s \ {Any(s)}]
    BY <1>3, <2>1
  <2> QED BY <2>3, <2>4, <2>5
<1> HIDE DEF N
<1>6. Nat \subseteq N
  BY <1>4, <1>5, Induction
<1>7. Cardinality(S) \in N
  BY <1>6, SmallSets
<1> QED BY <1>2, <1>7, SmallSets DEF N

(***************************************************************************)
(* The simulator, as a function of the lines it is still to read           *)
(***************************************************************************)
Addresses == {0, SpecialAddress}
Sizes == {0, CounterSize}

States == [address : Addresses, size : Sizes, value : Nat, active : SUBSET Tids,
           increments : [Tids -> Nat], evens : [Tids -> Nat], reads : [Tids -> Nat]]

SimState == [address |-> special_address, size |-> special_size, value |-> special_value,
             active |-> active_threads, increments |-> increments,
             evens |-> even_increments, reads |-> reads]

\* The lines that the programs write.
Operands == {None, Counter, SecondWord, BlockSize, BarrierWord}
MemoryLine(x, r, w) == [op |-> "m", tid |-> x, r |-> r, w |-> w]

MemoryLines == {MemoryLine(x, rw[1], rw[2]) : x \in Tids, rw \in
                  {<<Counter, Counter>>, <<Counter, None>>, <<None, Counter>>,
                   <<SecondWord, None>>, <<BlockSize, None>>, <<BarrierWord, BarrierWord>>}}
ThreadLines == [op : {"tr", "tf"}, tid : Tids]
OtherLines == [op : {"start_roi", "end_roi", "ctxt_change"}, tid : Int \cup Tids]
FunctionLines == [op : {"fc", "fr"}, tid : Int, name : {"special_malloc", "special_free"},
                  value : Nat]
TraceLines == MemoryLines \cup ThreadLines \cup OtherLines \cup FunctionLines

\* The simulator of inc_cas (c) or inc after a line of thread x that reads the
\* counter or something next to it, and writes w, the counter or nothing.
Counted(c, s, x, w) ==
  [s EXCEPT !.value = IF w = Counter THEN @ + 1 ELSE @,
            !.increments = IF w = Counter THEN Plus1(@, x) ELSE @,
            !.evens = IF ~c /\ w = Counter /\ s.value % 2 = 0 THEN Plus1(@, x) ELSE @,
            !.reads = IF c THEN Plus1(@, x) ELSE @]

\* What a line does, where no assert fails: such an access,
Counts(c, s, line, u) ==
  /\ line.op = "m" /\ line.r \notin {None, BarrierWord}
  /\ s.address = SpecialAddress /\ s.size = CounterSize
  /\ u = Counted(c, s, line.tid, line.w)

\* a thread's first and last line, a call or return of special_malloc,
Notes(s, line, u) ==
  \/ /\ line.op = "tr" /\ line.tid \notin s.active
     /\ u = [s EXCEPT !.active = @ \cup {line.tid}]
  \/ /\ line.op = "tf" /\ line.tid \in s.active
     /\ u = [s EXCEPT !.active = @ \ {line.tid}]
  \/ /\ line.op = "fc" /\ line.name = "special_malloc" /\ s.address = 0 /\ s.size = 0
     /\ line.value = CounterSize
     /\ u = [s EXCEPT !.size = CounterSize]
  \/ /\ line.op = "fr" /\ line.name = "special_malloc" /\ s.address = 0 /\ s.size = CounterSize
     /\ line.value = SpecialAddress
     /\ u = [s EXCEPT !.address = SpecialAddress]

\* or nothing.
Skips(s, line, u) ==
  /\ \/ line.op = "m" /\ line.r \in {None, BarrierWord}
     \/ line.op \in {"start_roi", "end_roi", "ctxt_change"}
     \/ line.op \in {"fc", "fr"} /\ line.name = "special_free"
  /\ u = s

Simulates(c, s, line, u) ==
  /\ line \in TraceLines
  /\ Counts(c, s, line, u) \/ Notes(s, line, u) \/ Skips(s, line, u)

\* From s the simulator gets to u with these lines.
Path(c, s, lines, u) ==
  \E run \in [0 .. Len(lines) -> States] :
    /\ run[0] = s /\ run[Len(lines)] = u
    /\ \A k \in 1 .. Len(lines) : Simulates(c, run[k - 1], lines[k], run[k])

LEMMA MemoryLineIs ==
  ASSUME NEW line \in MemoryLines
  PROVE  /\ line.op = "m" /\ line.tid \in Tids
         /\ \/ line.r = Counter /\ line.w \in {Counter, None}
            \/ line.r = None /\ line.w = Counter
            \/ line.r \in {SecondWord, BlockSize} /\ line.w = None
            \/ line.r = BarrierWord /\ line.w = BarrierWord
BY DEF MemoryLines, MemoryLine

LEMMA LineKinds ==
  ASSUME NEW line \in TraceLines
  PROVE  /\ line.op = "m" => line \in MemoryLines
         /\ line.op \in {"tr", "tf"} => line \in ThreadLines
         /\ line.op \in {"fc", "fr"} => line \in FunctionLines
         /\ line.op \in {"m", "tr", "tf", "fc", "fr", "start_roi", "end_roi", "ctxt_change"}
BY MemoryLineIs DEF TraceLines, ThreadLines, OtherLines, FunctionLines

LEMMA PathEmpty ==
  ASSUME NEW c, NEW s \in States
  PROVE  Path(c, s, <<>>, s)
<1> DEFINE run == [k \in 0 .. 0 |-> s]
<1>1. Len(<<>>) = 0 /\ 1 .. 0 = {}
  OBVIOUS
<1>2. run \in [0 .. 0 -> States] /\ run[0] = s
  OBVIOUS
<1> QED BY <1>1, <1>2 DEF Path

LEMMA PathNone ==
  ASSUME NEW c, NEW s, NEW u, Path(c, s, <<>>, u)
  PROVE  s = u
<1>1. Len(<<>>) = 0
  OBVIOUS
<1> QED BY <1>1 DEF Path

LEMMA PathOne ==
  ASSUME NEW c, NEW s \in States, NEW line, NEW u \in States, Simulates(c, s, line, u)
  PROVE  Path(c, s, <<line>>, u)
<1> DEFINE run == [k \in 0 .. 1 |-> IF k = 0 THEN s ELSE u]
<1>1. Len(<<line>>) = 1 /\ <<line>>[1] = line
  OBVIOUS
<1>2. run \in [0 .. 1 -> States] /\ run[0] = s /\ run[1] = u
  OBVIOUS
<1>3. ASSUME NEW k \in 1 .. 1 PROVE Simulates(c, run[k - 1], <<line>>[k], run[k])
  <2>1. k = 1 /\ k - 1 = 0
    OBVIOUS
  <2> HIDE DEF run
  <2> QED BY <1>1, <1>2, <2>1
<1> HIDE DEF run
<1> QED BY <1>1, <1>2, <1>3 DEF Path

\* More lines.
LEMMA PathConcat ==
  ASSUME NEW c, NEW s, NEW T, NEW a \in Seq(T), NEW b \in Seq(T), NEW u, NEW v,
         Path(c, s, a, u), Path(c, u, b, v)
  PROVE  Path(c, s, a \o b, v)
<1> DEFINE n == Len(a)
           m == Len(b)
           ab == a \o b
<1>1. /\ n \in Nat /\ m \in Nat /\ Len(ab) = n + m
      /\ \A k \in 1 .. n : ab[k] = a[k]
      /\ \A k \in 1 .. m : ab[n + k] = b[k]
  OBVIOUS
<1>2. PICK f \in [0 .. n -> States] :
        /\ f[0] = s /\ f[n] = u
        /\ \A k \in 1 .. n : Simulates(c, f[k - 1], a[k], f[k])
  BY DEF Path
<1>3. PICK g \in [0 .. m -> States] :
        /\ g[0] = u /\ g[m] = v
        /\ \A k \in 1 .. m : Simulates(c, g[k - 1], b[k], g[k])
  BY DEF Path
<1> HIDE DEF n, m, ab
<1> DEFINE run == [k \in 0 .. n + m |-> IF k <= n THEN f[k] ELSE g[k - n]]
<1>4. /\ \A k \in 0 .. n : run[k] = f[k]
      /\ \A k \in 0 .. m : run[n + k] = g[k]
  <2>1. ASSUME NEW k \in 0 .. n PROVE run[k] = f[k]
    BY <1>1
  <2>2. ASSUME NEW k \in 0 .. m PROVE run[n + k] = g[k]
    <3>1. n + k \in 0 .. n + m /\ (n + k) - n = k
      BY <1>1
    <3>2. CASE k = 0
      <4>1. n + k = n /\ n \in 0 .. n
        BY <1>1, <3>2
      <4> QED BY <1>2, <1>3, <2>1, <3>2, <4>1
    <3>3. CASE k # 0
      <4>1. ~(n + k <= n)
        BY <1>1, <3>3
      <4> QED BY <3>1, <4>1
    <3> QED BY <3>2, <3>3
  <2> QED BY <2>1, <2>2
<1>5. run \in [0 .. n + m -> States]
  <2>1. ASSUME NEW k \in 0 .. n + m PROVE run[k] \in States
    <3>1. CASE k <= n
      BY <1>1, <1>2, <3>1
    <3>2. CASE ~(k <= n)
      <4>1. k - n \in 0 .. m
        BY <1>1, <3>2
      <4> QED BY <1>3, <3>2, <4>1
    <3> QED BY <3>1, <3>2
  <2> QED BY <2>1
<1> HIDE DEF run
<1>6. run[0] = s /\ run[n + m] = v
  <2>1. 0 \in 0 .. n /\ m \in 0 .. m
    BY <1>1
  <2> QED BY <1>2, <1>3, <1>4, <2>1
<1>7. ASSUME NEW k \in 1 .. n + m
      PROVE  Simulates(c, run[k - 1], ab[k], run[k])
  <2>1. CASE k <= n
    <3>1. k \in 1 .. n /\ k \in 0 .. n /\ k - 1 \in 0 .. n
      BY <1>1, <2>1
    <3>2. Simulates(c, f[k - 1], a[k], f[k]) /\ run[k - 1] = f[k - 1] /\ run[k] = f[k]
      BY <1>2, <1>4, <3>1
    <3> QED BY <1>1, <3>1, <3>2
  <2>2. CASE ~(k <= n)
    <3> DEFINE i == k - n
    <3>1. i \in 1 .. m /\ i \in 0 .. m /\ i - 1 \in 0 .. m /\ k = n + i /\ k - 1 = n + (i - 1)
      BY <1>1, <2>2
    <3> HIDE DEF i
    <3>2. Simulates(c, g[i - 1], b[i], g[i]) /\ run[n + (i - 1)] = g[i - 1] /\ run[n + i] = g[i]
      BY <1>3, <1>4, <3>1
    <3> QED BY <1>1, <3>1, <3>2
  <2> QED BY <2>1, <2>2
<1> QED BY <1>1, <1>5, <1>6, <1>7 DEF Path, ab

\* The next line.
LEMMA PathHead ==
  ASSUME NEW c, NEW s, NEW lines \in Seq(TraceLines), lines # <<>>, NEW u, Path(c, s, lines, u)
  PROVE  \E v \in States : Simulates(c, s, Head(lines), v) /\ Path(c, v, Tail(lines), u)
<1> DEFINE n == Len(lines)
           rest == Tail(lines)
<1>1. /\ n \in Nat /\ n > 0 /\ Len(rest) = n - 1 /\ Head(lines) = lines[1]
      /\ \A k \in 1 .. n - 1 : rest[k] = lines[k + 1]
  OBVIOUS
<1>2. PICK run \in [0 .. n -> States] :
        /\ run[0] = s /\ run[n] = u
        /\ \A k \in 1 .. n : Simulates(c, run[k - 1], lines[k], run[k])
  BY DEF Path
<1> HIDE DEF n, rest
<1> DEFINE next == [k \in 0 .. n - 1 |-> run[k + 1]]
<1>3. next \in [0 .. n - 1 -> States] /\ next[0] = run[1] /\ next[n - 1] = u
  BY <1>1, <1>2
<1>4. ASSUME NEW k \in 1 .. n - 1
      PROVE  Simulates(c, next[k - 1], rest[k], next[k])
  <2>1. k + 1 \in 1 .. n /\ (k + 1) - 1 = k /\ (k - 1) + 1 = k
    BY <1>1
  <2>2. next[k - 1] = run[k] /\ next[k] = run[k + 1] /\ rest[k] = lines[k + 1]
    BY <1>1, <2>1
  <2>3. Simulates(c, run[(k + 1) - 1], lines[k + 1], run[k + 1])
    BY <1>2, <2>1
  <2> QED BY <2>1, <2>2, <2>3
<1>5. Simulates(c, s, Head(lines), run[1]) /\ run[1] \in States
  <2>1. 1 \in 1 .. n /\ 1 - 1 = 0 /\ 1 \in 0 .. n
    BY <1>1
  <2>2. Simulates(c, run[1 - 1], lines[1], run[1])
    BY <1>2, <2>1
  <2> QED BY <1>1, <1>2, <2>1, <2>2
<1> HIDE DEF next
<1>6. Path(c, run[1], rest, u)
  BY <1>1, <1>3, <1>4 DEF Path
<1> QED BY <1>5, <1>6 DEF rest

\* The simulator reads a line as Simulates says, and no assert fails.
LEMMA SimReads ==
  ASSUME NEW c \in BOOLEAN, NEW line, NEW u \in States, SimState \in States,
         Simulates(c, SimState, line, u),
         SimStep(line, c)
  PROVE  SimState' = u /\ stopped' \in {"no", "TypeError"}
<1> USE DEF SimState, Addresses, Sizes
<1>1. line \in TraceLines
  BY DEF Simulates
<1>2. CASE MemoryAccess(line, c)
  <2>1. line.op = "m" /\ line \in MemoryLines
    BY <1>1, <1>2, LineKinds DEF MemoryAccess
  <2>2. /\ read' = (IF line.r = None THEN read ELSE line.r)
        /\ written' = (IF line.w = None THEN written ELSE line.w)
        /\ IF c THEN IncCASAccess(line) ELSE IncAccess(line)
        /\ UNCHANGED <<special_address, special_size, active_threads>>
        /\ stopped = "no"
    BY <1>2 DEF MemoryAccess, SimStep
  <2>3. CASE Counts(c, SimState, line, u)
    <3>1. special_address = 32 /\ special_size = 64
      BY <2>3 DEF Counts, SpecialAddress, CounterSize
    <3>2. line.r \in {Counter, SecondWord, BlockSize}
          /\ line.w = (IF line.r = Counter /\ line.w = Counter THEN Counter ELSE None)
      BY <2>1, <2>3, MemoryLineIs DEF Counts
    <3>3. line.r # None /\ read' = line.r /\ Touches(read')
      BY <2>2, <3>1, <3>2 DEF Touches, Counter, SecondWord, BlockSize, None, Operand, SpecialAddress
    <3>4. IF line.w = Counter
          THEN IsRMW(line) /\ written' = Counter /\ IsCounter(read') /\ IsCounter(written')
               /\ Touches(written')
          ELSE ~IsRMW(line) /\ line.w = None
      BY <2>2, <3>1, <3>2, <3>3 DEF IsRMW, IsCounter, Counter, None, Operand, SpecialAddress
    <3>5. special_address # 0 /\ stopped = "no"
      BY <2>2, <3>1
    <3>6. u = [SimState EXCEPT
                 !.value = IF line.w = Counter THEN @ + 1 ELSE @,
                 !.increments = IF line.w = Counter THEN Plus1(@, line.tid) ELSE @,
                 !.evens = IF ~c /\ line.w = Counter /\ special_value % 2 = 0
                           THEN Plus1(@, line.tid) ELSE @,
                 !.reads = IF c THEN Plus1(@, line.tid) ELSE @]
      BY <2>3 DEF Counts, Counted
    <3>7. CASE c
      <4>1. IncCASAccess(line)
        BY <2>2, <3>7
      <4> QED BY <2>2, <3>3, <3>4, <3>5, <3>6, <3>7, <4>1 DEF IncCASAccess, CountsRead, Asserts
    <3>8. CASE ~c
      <4>1. IncAccess(line)
        BY <2>2, <3>8
      <4> QED BY <2>2, <3>3, <3>4, <3>5, <3>6, <3>8, <4>1 DEF IncAccess, Asserts
    <3> QED BY <3>7, <3>8
  <2>4. CASE Skips(SimState, line, u)
    <3>1. line.r = None \/ (line.r = BarrierWord /\ line.w = BarrierWord)
      BY <2>1, <2>4, MemoryLineIs DEF Skips, None, Counter, SecondWord, BlockSize, BarrierWord, Operand, SpecialAddress
    <3>2. CASE special_address = 0
      BY <2>2, <2>4, <3>2 DEF Skips, IncCASAccess, IncAccess
    <3>3. CASE special_address # 0 /\ line.r = None
      BY <2>2, <2>4, <3>3 DEF Skips, IncCASAccess, IncAccess, IsRMW
    <3>4. CASE special_address # 0 /\ line.r = BarrierWord /\ line.w = BarrierWord
      <4>1. special_address = 32 /\ special_size \in {0, 64}
        BY <3>4 DEF States, SpecialAddress, CounterSize
      <4>2. read' = BarrierWord /\ written' = BarrierWord
        BY <2>2, <3>4 DEF BarrierWord, None, Operand, SpecialAddress
      <4>3. ~Touches(BarrierWord)
        BY <4>1 DEF Touches, BarrierWord, Operand, SpecialAddress
      <4> QED BY <2>2, <2>4, <4>2, <4>3 DEF Skips, IncCASAccess, IncAccess
    <3> QED BY <3>1, <3>2, <3>3, <3>4
  <2> QED BY <2>1, <2>3, <2>4 DEF Simulates, Notes
<1>3. CASE StartThread(line) \/ FinishThread(line)
  BY <1>3 DEF StartThread, FinishThread, Simulates, Counts, Notes, Skips, Asserts, SimStep
<1>4. CASE FunctionCall(line) \/ FunctionReturn(line)
  BY <1>4 DEF FunctionCall, FunctionReturn, Simulates, Counts, Notes, Skips, Asserts, SimStep,
              CounterSize
<1>5. CASE ChangeRoi(line) \/ CtxtChange(line)
  BY <1>5 DEF ChangeRoi, CtxtChange, simVars, Simulates, Counts, Notes, Skips, SimStep
<1> QED BY <1>2, <1>3, <1>4, <1>5 DEF SimStep

(***************************************************************************)
(* The programs, as far as their traces depend on them                     *)
(***************************************************************************)
MainPlaces == {"malloc", "create", "bar1", "start_roi", "bar2", "bar3", "end_roi", "bar4",
               "join", "check", "free", "done", "failed"}
ThreadPlaces == {"none", "begin", "bar1", "bar2", "loop", "cas", "bar3", "bar4", "return",
                 "ended"}

PlaceInv == pc[Main] \in MainPlaces /\ \A t \in Threads : pc[t] \in ThreadPlaces

\* Who is where before the barriers around the loops.
BeforeGate2 == {"malloc", "create", "none", "begin", "bar1", "start_roi"}
BeforeGate3 == BeforeGate2 \cup {"bar2", "loop", "cas"}

GateInv ==
  /\ \A p \in arrived[2] : pc[p] \notin BeforeGate2
  /\ \A p \in arrived[3] : pc[p] \notin BeforeGate3
  /\ \A p \in Parties : pc[p] \notin BeforeGate2 \cup {"bar2"} => Parties \subseteq arrived[2]
  /\ \A p \in Parties : pc[p] \notin BeforeGate3 \cup {"bar3"} => Parties \subseteq arrived[3]

\* inc compares nothing.
CasInv == \A t \in Threads : (pc[t] = "cas" => cas) /\ (~cas => fail_count[t] = 0)

ProgramInv == IncInv /\ PlaceInv /\ GateInv /\ CasInv

\* A full barrier has everyone.
LEMMA FullIsAll ==
  ASSUME TypeInv, NEW b \in 1 .. 4, IsFull(b)
  PROVE  Parties \subseteq arrived[b]
<1>1. IsFiniteSet(Threads) /\ Cardinality(Threads) = num_threads /\ Main \notin Threads
  BY Constants
<1>2. IsFiniteSet(Parties) /\ Cardinality(Parties) = num_threads + 1
  BY <1>1, FS_AddElement DEF Parties
<1>3. arrived[b] \in SUBSET Parties
  BY DEF TypeInv
<1>4. /\ Cardinality(arrived[b]) <= Cardinality(Parties)
      /\ Cardinality(Parties) = Cardinality(arrived[b]) => Parties = arrived[b]
      /\ Cardinality(arrived[b]) \in Nat
  BY <1>2, <1>3, FS_Subset, FS_CardinalityType
<1>5. Cardinality(arrived[b]) = Cardinality(Parties)
  BY <1>2, <1>4 DEF IsFull
<1> QED BY <1>4, <1>5

LEMMA ProgramInit == Init => ProgramInv
<1> SUFFICES ASSUME Init PROVE ProgramInv
  OBVIOUS
<1>1. PlaceInv
  BY Constants DEF Init, PlaceInv, MainPlaces, ThreadPlaces
<1>2. \A p \in Parties : pc[p] \in {"malloc", "none"}
  BY DEF Init
<1>3. GateInv
  BY <1>2 DEF Init, GateInv, BeforeGate2, BeforeGate3
<1>4. CasInv
  BY <1>2, Constants DEF Init, CasInv
<1> QED BY <1>1, <1>3, <1>4, InitInv DEF ProgramInv

LEMMA ProgramNext == ProgramInv /\ [Next]_programVars => ProgramInv'
<1> SUFFICES ASSUME ProgramInv, [Next]_programVars PROVE ProgramInv'
  OBVIOUS
<1>0. IncInv' /\ TypeInv
  BY NextInv DEF ProgramInv, IncInv
<1>1. pc \in [Parties -> Places] /\ arrived \in [1 .. 4 -> SUBSET Parties]
      /\ fail_count \in [Threads -> Nat]
  BY <1>0 DEF TypeInv
<1> SUFFICES PlaceInv' /\ GateInv' /\ CasInv'
  BY <1>0 DEF ProgramInv
<1> USE DEF GateInv, PlaceInv, CasInv, BeforeGate2, BeforeGate3, MainPlaces, ThreadPlaces, GoTo
<1>2. CASE UNCHANGED programVars
  BY <1>2 DEF ProgramInv, programVars, counts
<1>3. CASE MainStep
  <2>1. CASE Malloc \/ StartRoi \/ EndRoi \/ Join \/ Check \/ Free
    BY <1>1, <2>1, Constants DEF ProgramInv, Malloc, StartRoi, EndRoi, Join, Check, Free
  <2>2. ASSUME NEW t \in Threads, Create(t) PROVE PlaceInv' /\ GateInv' /\ CasInv'
    BY <1>1, <2>2, Constants DEF ProgramInv, Create
  <2> QED BY <1>3, <2>1, <2>2 DEF MainStep
<1>4. ASSUME NEW t \in Threads, ThreadStep(t) PROVE PlaceInv' /\ GateInv' /\ CasInv'
  <2>1. CASE Register(t) \/ ReadCounter(t) \/ Return(t)
    BY <1>1, <2>1, Constants DEF ProgramInv, Register, ReadCounter, Return
  <2>2. CASE FetchAdd(t)
    BY <1>1, <2>2, Constants DEF ProgramInv, FetchAdd, CountInc
  <2>3. CASE CompareAndSwap(t)
    BY <1>1, <2>3, Constants DEF ProgramInv, CompareAndSwap, CountInc
  <2> QED BY <1>4, <2>1, <2>2, <2>3 DEF ThreadStep
<1>5. ASSUME NEW p \in Parties, BarrierStep(p) PROVE PlaceInv' /\ GateInv' /\ CasInv'
  <2>1. PICK b \in 1 .. 4 : Arrive(p, b) \/ Pass(p, b)
    BY <1>5 DEF BarrierStep
  <2>2. Gate[b] = IF b = 1 THEN "bar1" ELSE IF b = 2 THEN "bar2"
                  ELSE IF b = 3 THEN "bar3" ELSE "bar4"
    BY GatesDiffer
  <2>3. CASE Arrive(p, b)
    BY <1>1, <2>2, <2>3, Constants DEF ProgramInv, Arrive
  <2>4. CASE Pass(p, b)
    <3>1. /\ pc[p] = Gate[b] /\ pc' = [pc EXCEPT ![p] = AfterGate(p, b)]
          /\ UNCHANGED <<cas, arrived, fail_count>> /\ Parties \subseteq arrived[b]
      BY <1>0, <2>4, FullIsAll DEF Pass
    <3>2. AfterGate(p, b) =
            IF p = Main
            THEN (IF b = 1 THEN "start_roi" ELSE IF b = 2 THEN "bar3"
                  ELSE IF b = 3 THEN "end_roi" ELSE "join")
            ELSE (IF b = 1 THEN "bar2" ELSE IF b = 2 THEN "loop"
                  ELSE IF b = 3 THEN "bar4" ELSE "return")
      BY DEF AfterGate
    <3>3. p = Main \/ (p \in Threads /\ p # Main)
      BY Constants DEF Parties
    <3>4. PlaceInv' /\ CasInv'
      BY <1>1, <2>2, <3>1, <3>2, <3>3, Constants DEF ProgramInv
    <3>5. GateInv'
      BY <1>1, <2>2, <3>1, <3>2, <3>3, Constants DEF ProgramInv
    <3> QED BY <3>4, <3>5
  <2> QED BY <2>1, <2>3, <2>4
<1> QED BY <1>2, <1>3, <1>4, <1>5 DEF Next

\* While a thread is in its loop, main is between the barriers around it.
LEMMA LoopInRoi ==
  ASSUME ProgramInv, NEW t \in Threads, pc[t] \in {"loop", "cas"}
  PROVE  pc[Main] \in {"bar2", "bar3"} /\ in_roi
<1>1. Main \in Parties /\ t \in Parties
  BY Constants
<1>2. pc[Main] \notin BeforeGate2
  BY <1>1 DEF ProgramInv, GateInv, BeforeGate2
<1>3. pc[Main] \in BeforeGate3 \cup {"bar3"}
  BY <1>1 DEF ProgramInv, GateInv, BeforeGate3
<1> QED BY <1>2, <1>3 DEF ProgramInv, PlaceInv, MainPlaces, BeforeGate2, BeforeGate3, in_roi

(***************************************************************************)
(* The simulator at the end of the trace and the program: a path through   *)
(* the lines on the way leads it to a state that matches the program.  A   *)
(* step of the program puts lines at the end, which lead from any state    *)
(* that matches to one that matches again (Follows), and reading a line is *)
(* the first step of the path (PathHead).                                  *)
(***************************************************************************)
KnobsOK == register_threads \in BOOLEAN /\ require_roi \in BOOLEAN /\ log_cas_fails \in BOOLEAN

\* The threads that have registered and not ended, and their ids.
Alive(t) == pc[t] \notin {"none", "begin", "ended"}

ActiveIds ==
  {TidOf(t) : t \in {t \in Threads : Alive(t)}}
    \cup (IF register_threads \/ pc[Main] = "done" THEN {} ELSE {0})

InCas == {t \in Threads : pc[t] = "cas"}

\* main's reads of the counter and of what is next to it, at least
MainReads == IF pc[Main] = "done" THEN 2 ELSE IF pc[Main] \in {"free", "failed"} THEN 1 ELSE 0

\* A thread reads once for each increment and each failure, and once before
\* each loop around the compare-and-swap.
ReadsOfThreads == 2 * counter + Total(fail_count) + Cardinality(InCas)

AddressMatches(u) ==
  IF pc[Main] = "malloc" THEN u.address = 0 /\ u.size = 0
                         ELSE u.address = SpecialAddress /\ u.size = CounterSize

CountsMatch(u) ==
  /\ u.value = counter + (IF log_cas_fails THEN Total(fail_count) ELSE 0)
  /\ \A t \in Threads :
       /\ u.increments[TidOf(t)] = count[t] + (IF log_cas_fails THEN fail_count[t] ELSE 0)
       /\ ~cas => u.evens[TidOf(t)] = even_count[t]

ReadsMatch(u) ==
  cas /\ ~log_cas_fails =>
    IF register_threads \/ require_roi THEN Total(u.reads) = ReadsOfThreads
                                       ELSE Total(u.reads) >= ReadsOfThreads + MainReads

Matches(u) == AddressMatches(u) /\ u.active = ActiveIds /\ CountsMatch(u) /\ ReadsMatch(u)

TraceInv ==
  /\ ProgramInv /\ KnobsOK
  /\ trace \in Seq(TraceLines) /\ Len(trace) < MaxUnread + 5
  /\ SimState \in States /\ {read, written} \subseteq Operands /\ stopped \in {"no", "TypeError"}
  /\ \E u \in States : Path(cas, SimState, trace, u) /\ Matches(u)

\* Whatever the simulator has come to before these lines, it matches the
\* program again after them.
Follows(lines) ==
  \A u \in States : Matches(u) => \E v \in States : Path(cas, u, lines, v) /\ Matches(v)'

\* Lines that tell the simulator nothing.
Quiet(lines) == \A u \in States : Path(cas, u, lines, u)

LEMMA TidsDiffer ==
  ASSUME KnobsOK
  PROVE  /\ \A t \in Threads : TidOf(t) \in Nat /\ TidOf(t) \in Tids
         /\ \A t, w \in Threads : TidOf(t) = TidOf(w) => t = w
         /\ 0 \in Tids
         /\ ~register_threads => \A t \in Threads : TidOf(t) # 0
BY TraceAssumption DEF KnobsOK, TidOf, Threads

\* Ids in the trace.
LEMMA UserIds ==
  ASSUME ProgramInv, KnobsOK
  PROVE  /\ \A p \in Parties : UserId(p) \in Int /\ (Traced(p) => UserId(p) \in Tids)
         /\ UserId(Main) = IF register_threads THEN -1 ELSE 0
         /\ \A t \in Threads : pc[t] \notin {"none", "begin"} => UserId(t) = TidOf(t)
<1>1. /\ UserId(Main) = IF register_threads THEN -1 ELSE 0
      /\ Main = -1 /\ pc[Main] \notin {"none", "begin"}
  BY DEF ProgramInv, PlaceInv, MainPlaces, UserId, Main
<1>2. \A t \in Threads : pc[t] \notin {"none", "begin"} => UserId(t) = TidOf(t)
  BY DEF UserId, TidOf
<1>3. ASSUME NEW t \in Threads PROVE UserId(t) \in Int /\ (UserId(t) >= 0 => UserId(t) \in Tids)
  BY TraceAssumption DEF KnobsOK, UserId, Threads, Main
<1>4. UserId(Main) \in Int /\ (UserId(Main) >= 0 => UserId(Main) \in Tids)
  BY <1>1, TidsDiffer DEF KnobsOK
<1> QED BY <1>1, <1>2, <1>3, <1>4 DEF Parties, Traced

LEMMA MainNotTraced ==
  ASSUME ProgramInv, KnobsOK, register_threads \/ require_roi,
         pc[Main] \in {"check", "free"}
  PROVE  ~Traced(Main)
BY UserIds DEF Traced, in_roi, KnobsOK

\* The lines of the actions are lines of the trace.
LEMMA AccessLines ==
  ASSUME ProgramInv, KnobsOK, NEW p \in Parties, NEW r, NEW w,
         <<r, w>> \in {<<Counter, Counter>>, <<Counter, None>>, <<None, Counter>>,
                       <<SecondWord, None>>, <<BlockSize, None>>, <<BarrierWord, BarrierWord>>}
  PROVE  /\ Access(p, r, w) \in Seq(TraceLines) /\ Len(Access(p, r, w)) <= 1
         /\ IF Traced(p) THEN /\ Access(p, r, w) = <<MemoryLine(UserId(p), r, w)>>
                              /\ MemoryLine(UserId(p), r, w) \in TraceLines
                         ELSE Access(p, r, w) = <<>>
<1>1. CASE Traced(p)
  <2>1. UserId(p) \in Tids
    BY <1>1, UserIds
  <2>2. MemoryLine(UserId(p), r, w) \in MemoryLines
    BY <2>1 DEF MemoryLines
  <2>3. MemoryLine(UserId(p), r, w) \in TraceLines
    BY <2>2 DEF TraceLines
  <2> HIDE DEF TraceLines
  <2> QED BY <1>1, <2>3 DEF Access, MemoryLine
<1>2. CASE ~Traced(p)
  BY <1>2 DEF Access
<1> QED BY <1>1, <1>2

LEMMA QuietAccess ==
  ASSUME ProgramInv, KnobsOK, NEW p \in Parties, NEW r, NEW w,
         <<r, w>> \in {<<None, Counter>>, <<BarrierWord, BarrierWord>>}
  PROVE  Quiet(Access(p, r, w))
<1> SUFFICES ASSUME NEW u \in States PROVE Path(cas, u, Access(p, r, w), u)
  BY DEF Quiet
<1>1. CASE Traced(p)
  <2> DEFINE line == MemoryLine(UserId(p), r, w)
  <2>1. Access(p, r, w) = <<line>> /\ line \in TraceLines
    BY <1>1, AccessLines
  <2>2. line.op = "m" /\ line.r \in {None, BarrierWord}
    BY DEF MemoryLine
  <2> HIDE DEF line
  <2>3. Simulates(cas, u, line, u)
    BY <2>1, <2>2 DEF Simulates, Skips
  <2> QED BY <2>1, <2>3, PathOne
<1>2. CASE ~Traced(p)
  <2>1. Access(p, r, w) = <<>>
    BY <1>2, AccessLines
  <2> QED BY <2>1, PathEmpty
<1> QED BY <1>1, <1>2

LEMMA QuietLine ==
  ASSUME NEW line \in TraceLines,
         \/ line.op \in {"start_roi", "end_roi", "ctxt_change"}
         \/ line.op \in {"fc", "fr"} /\ line.name = "special_free"
  PROVE  Quiet(<<line>>)
<1> SUFFICES ASSUME NEW u \in States PROVE Path(cas, u, <<line>>, u)
  BY DEF Quiet
<1>1. Simulates(cas, u, line, u)
  BY DEF Simulates, Skips
<1> QED BY <1>1, PathOne

LEMMA QuietNone == Quiet(<<>>)
BY PathEmpty DEF Quiet

\* A read or an increment, traced.
LEMMA CountedTypes ==
  ASSUME NEW u \in States, NEW x \in Tids, NEW w
  PROVE  Counted(cas, u, x, w) \in States
<1>1. /\ u.value \in Nat /\ u.value + 1 \in Nat
      /\ u.increments \in [Tids -> Nat] /\ u.evens \in [Tids -> Nat] /\ u.reads \in [Tids -> Nat]
  BY DEF States
<1>2. /\ Plus1(u.increments, x) \in [Tids -> Nat]
      /\ Plus1(u.evens, x) \in [Tids -> Nat]
      /\ Plus1(u.reads, x) \in [Tids -> Nat]
  BY <1>1 DEF Plus1
<1> QED BY <1>1, <1>2 DEF Counted, States

LEMMA CountedAccess ==
  ASSUME ProgramInv, KnobsOK, NEW p \in Parties, Traced(p), NEW r, NEW w,
         <<r, w>> \in {<<Counter, Counter>>, <<Counter, None>>, <<SecondWord, None>>,
                       <<BlockSize, None>>},
         NEW u \in States, u.address = SpecialAddress, u.size = CounterSize
  PROVE  /\ Counted(cas, u, UserId(p), w) \in States
         /\ Path(cas, u, Access(p, r, w), Counted(cas, u, UserId(p), w))
<1> DEFINE line == MemoryLine(UserId(p), r, w)
           v == Counted(cas, u, UserId(p), w)
<1>1. Access(p, r, w) = <<line>> /\ line \in TraceLines
  BY AccessLines
<1>2. line.op = "m" /\ line.tid = UserId(p) /\ line.r = r /\ line.w = w
  BY DEF MemoryLine
<1>3. r \notin {None, BarrierWord}
  BY DEF None, Counter, SecondWord, BlockSize, BarrierWord, Operand, SpecialAddress
<1>4. v \in States
  BY UserIds, CountedTypes
<1> HIDE DEF line
<1>5. Simulates(cas, u, line, v)
  BY <1>1, <1>2, <1>3 DEF Simulates, Counts
<1> HIDE DEF v
<1>6. Path(cas, u, <<line>>, v)
  BY <1>4, <1>5, PathOne
<1> QED BY <1>1, <1>4, <1>6 DEF v

\* A step that neither counts nor lets a thread begin or end.
StillMatches ==
  /\ UNCHANGED <<cas, counter, count, even_count, fail_count>>
  /\ \A t \in Threads : (Alive(t)' <=> Alive(t)) /\ (pc'[t] = "cas" <=> pc[t] = "cas")
  /\ pc'[Main] = "malloc" <=> pc[Main] = "malloc"
  /\ pc'[Main] = "done" <=> pc[Main] = "done"
  /\ pc'[Main] \in {"free", "failed"} <=> pc[Main] \in {"free", "failed"}

LEMMA MatchesStays ==
  ASSUME StillMatches, UNCHANGED knobs, NEW u, Matches(u)
  PROVE  Matches(u)'
<1> UNCHANGED <<register_threads, require_roi, log_cas_fails>>
  BY DEF knobs
<1>1. ActiveIds' = ActiveIds
  BY DEF StillMatches, ActiveIds, TidOf
<1>2. InCas' = InCas
  BY DEF StillMatches, InCas
<1>3. MainReads' = MainReads
  BY DEF StillMatches, MainReads
<1>4. ReadsOfThreads' = ReadsOfThreads
  BY <1>2 DEF StillMatches, ReadsOfThreads
<1>5. AddressMatches(u)' /\ CountsMatch(u)'
  BY DEF Matches, StillMatches, AddressMatches, CountsMatch, TidOf
<1>6. ReadsMatch(u)'
  BY <1>3, <1>4 DEF Matches, StillMatches, ReadsMatch
<1> QED BY <1>1, <1>5, <1>6 DEF Matches

LEMMA QuietFollows ==
  ASSUME StillMatches, UNCHANGED knobs, NEW lines, Quiet(lines)
  PROVE  Follows(lines)
<1> SUFFICES ASSUME NEW u \in States, Matches(u)
             PROVE  \E v \in States : Path(cas, u, lines, v) /\ Matches(v)'
  BY DEF Follows
<1> QED BY MatchesStays DEF Quiet

\* The lines of a step, at the end of the trace.
LEMMA Extends ==
  ASSUME TraceInv, ProgramInv', cas' = cas, UNCHANGED <<simVars, knobs>>, Len(trace) < MaxUnread,
         NEW lines \in Seq(TraceLines), Len(lines) <= 5, trace' = trace \o lines, Follows(lines)
  PROVE  TraceInv'
<1>1. trace \in Seq(TraceLines) /\ Len(trace) \in Nat /\ Len(lines) \in Nat
  BY DEF TraceInv
<1>2. trace' \in Seq(TraceLines) /\ Len(trace') = Len(trace) + Len(lines)
  BY <1>1, ConcatProperties
<1>3. Len(trace') < MaxUnread + 5
  BY <1>1, <1>2, TraceAssumption
<1>4. PICK u \in States : Path(cas, SimState, trace, u) /\ Matches(u)
  BY DEF TraceInv
<1>5. PICK v \in States : Path(cas, u, lines, v) /\ Matches(v)'
  BY <1>4 DEF Follows
<1>6. Path(cas, SimState, trace \o lines, v)
  BY <1>1, <1>4, <1>5, PathConcat
<1>7. SimState' = SimState /\ UNCHANGED <<read, written, stopped>>
  BY DEF SimState, simVars
<1>8. KnobsOK'
  BY DEF TraceInv, KnobsOK, knobs
<1>9. Path(cas', SimState', trace', v)
  BY <1>6, <1>7
<1>10. \E w \in States : Path(cas', SimState', trace', w) /\ Matches(w)'
  BY <1>5, <1>9
<1>11. SimState' \in States /\ {read', written'} \subseteq Operands /\ stopped' \in {"no", "TypeError"}
  BY <1>7 DEF TraceInv
<1> QED BY <1>2, <1>3, <1>8, <1>10, <1>11 DEF TraceInv

-----------------------------------------------------------------------------
\* The lines of a thread.
LEMMA RegisterFollows ==
  ASSUME ProgramInv, KnobsOK, UNCHANGED knobs, NEW t \in Threads, Register(t),
         NEW line, line = [op |-> "tr", tid |-> TidOf(t)]
  PROVE  Follows(<<line>>)
<1> SUFFICES ASSUME NEW u \in States, Matches(u)
             PROVE  \E v \in States : Path(cas, u, <<line>>, v) /\ Matches(v)'
  BY DEF Follows
<1> UNCHANGED <<register_threads, require_roi, log_cas_fails>>
  BY DEF knobs
<1>1. line \in TraceLines /\ line.op = "tr" /\ line.tid = TidOf(t)
  BY TidsDiffer DEF TraceLines, ThreadLines
<1>2. /\ pc[t] = "begin" /\ pc' = [pc EXCEPT ![t] = "bar1"] /\ t # Main /\ t \in Parties
      /\ pc \in [Parties -> Places] /\ Main \in Parties
      /\ UNCHANGED <<cas, counter, count, even_count, fail_count>>
  BY Constants DEF Register, GoTo, counts, ProgramInv, IncInv, TypeInv
<1>3. /\ \A w \in Threads : Alive(w)' <=> Alive(w) \/ w = t
      /\ \A w \in Threads : pc'[w] = "cas" <=> pc[w] = "cas"
      /\ pc'[Main] = pc[Main] /\ ~Alive(t)
  BY <1>2, Constants DEF Alive
<1>4. TidOf(t) \notin u.active
  BY <1>3, TidsDiffer DEF Matches, ActiveIds
<1>5. ActiveIds' = ActiveIds \cup {TidOf(t)}
  BY <1>3 DEF ActiveIds, TidOf
<1>6. [u EXCEPT !.active = @ \cup {TidOf(t)}] \in States
  BY TidsDiffer DEF States
<1> PICK v \in States : v = [u EXCEPT !.active = @ \cup {TidOf(t)}]
  BY <1>6
<1>7. Path(cas, u, <<line>>, v)
  <2>1. Simulates(cas, u, line, v)
    BY <1>1, <1>4 DEF Simulates, Notes
  <2> QED BY <2>1, PathOne
<1>8. /\ v.address = u.address /\ v.size = u.size /\ v.value = u.value /\ v.evens = u.evens
      /\ v.increments = u.increments /\ v.reads = u.reads /\ v.active = u.active \cup {TidOf(t)}
  BY DEF States
<1>9. InCas' = InCas /\ MainReads' = MainReads
  BY <1>3 DEF InCas, MainReads
<1>10. ReadsOfThreads' = ReadsOfThreads
  BY <1>2, <1>9 DEF ReadsOfThreads
<1>11. AddressMatches(v)' /\ CountsMatch(v)'
  BY <1>2, <1>3, <1>8 DEF Matches, AddressMatches, CountsMatch, TidOf
<1>12. ReadsMatch(v)'
  BY <1>2, <1>8, <1>9, <1>10 DEF Matches, ReadsMatch
<1>13. v.active = ActiveIds'
  BY <1>5, <1>8 DEF Matches
<1> QED BY <1>7, <1>11, <1>12, <1>13 DEF Matches

LEMMA ReturnFollows ==
  ASSUME ProgramInv, KnobsOK, UNCHANGED knobs, NEW t \in Threads, Return(t),
         NEW line, line = [op |-> "tf", tid |-> TidOf(t)]
  PROVE  Follows(<<line>>)
<1> SUFFICES ASSUME NEW u \in States, Matches(u)
             PROVE  \E v \in States : Path(cas, u, <<line>>, v) /\ Matches(v)'
  BY DEF Follows
<1> UNCHANGED <<register_threads, require_roi, log_cas_fails>>
  BY DEF knobs
<1>1. line \in TraceLines /\ line.op = "tf" /\ line.tid = TidOf(t)
  BY TidsDiffer DEF TraceLines, ThreadLines
<1>2. /\ pc[t] = "return" /\ pc' = [pc EXCEPT ![t] = "ended"] /\ t # Main /\ t \in Parties
      /\ pc \in [Parties -> Places] /\ Main \in Parties
      /\ UNCHANGED <<cas, counter, count, even_count, fail_count>>
  BY Constants DEF Return, GoTo, counts, ProgramInv, IncInv, TypeInv
<1>3. /\ \A w \in Threads : Alive(w)' <=> Alive(w) /\ w # t
      /\ \A w \in Threads : pc'[w] = "cas" <=> pc[w] = "cas"
      /\ pc'[Main] = pc[Main] /\ Alive(t)
  BY <1>2, Constants DEF Alive
<1>4. TidOf(t) \in u.active
  BY <1>3 DEF Matches, ActiveIds
<1>5. ActiveIds' = ActiveIds \ {TidOf(t)}
  BY <1>3, TidsDiffer DEF ActiveIds, TidOf
<1>6. [u EXCEPT !.active = @ \ {TidOf(t)}] \in States
  BY DEF States
<1> PICK v \in States : v = [u EXCEPT !.active = @ \ {TidOf(t)}]
  BY <1>6
<1>7. Path(cas, u, <<line>>, v)
  <2>1. Simulates(cas, u, line, v)
    BY <1>1, <1>4 DEF Simulates, Notes
  <2> QED BY <2>1, PathOne
<1>8. /\ v.address = u.address /\ v.size = u.size /\ v.value = u.value /\ v.evens = u.evens
      /\ v.increments = u.increments /\ v.reads = u.reads /\ v.active = u.active \ {TidOf(t)}
  BY DEF States
<1>9. InCas' = InCas /\ MainReads' = MainReads
  BY <1>3 DEF InCas, MainReads
<1>10. ReadsOfThreads' = ReadsOfThreads
  BY <1>2, <1>9 DEF ReadsOfThreads
<1>11. AddressMatches(v)' /\ CountsMatch(v)'
  BY <1>2, <1>3, <1>8 DEF Matches, AddressMatches, CountsMatch, TidOf
<1>12. ReadsMatch(v)'
  BY <1>2, <1>8, <1>9, <1>10 DEF Matches, ReadsMatch
<1>13. v.active = ActiveIds'
  BY <1>5, <1>8 DEF Matches
<1> QED BY <1>7, <1>11, <1>12, <1>13 DEF Matches

\* A thread in its loop is traced, and the simulator knows the memory.
LEMMA InLoop ==
  ASSUME ProgramInv, KnobsOK, NEW t \in Threads, pc[t] \in {"loop", "cas"},
         NEW u \in States, Matches(u)
  PROVE  /\ Traced(t) /\ UserId(t) = TidOf(t) /\ TidOf(t) \in Tids
         /\ u.address = SpecialAddress /\ u.size = CounterSize
         /\ pc[Main] \in {"bar2", "bar3"} /\ t # Main /\ t \in Parties /\ Main \in Parties
         /\ Alive(t)
<1>1. pc[Main] \in {"bar2", "bar3"} /\ in_roi
  BY LoopInRoi
<1>2. UserId(t) = TidOf(t) /\ TidOf(t) \in Nat /\ TidOf(t) \in Tids
  BY UserIds, TidsDiffer
<1>3. Traced(t)
  BY <1>1, <1>2 DEF Traced
<1>4. u.address = SpecialAddress /\ u.size = CounterSize
  BY <1>1 DEF Matches, AddressMatches
<1> QED BY <1>1, <1>2, <1>3, <1>4, Constants DEF Alive

\* What Counted changes, for the two kinds of access.
LEMMA IncrementCounted ==
  ASSUME NEW c \in BOOLEAN, NEW u \in States, NEW x \in Tids, NEW v, v = Counted(c, u, x, Counter)
  PROVE  /\ v.address = u.address /\ v.size = u.size /\ v.active = u.active
         /\ v.value = u.value + 1
         /\ v.increments = Plus1(u.increments, x)
         /\ v.evens = IF ~c /\ u.value % 2 = 0 THEN Plus1(u.evens, x) ELSE u.evens
         /\ v.reads = IF c THEN Plus1(u.reads, x) ELSE u.reads
         /\ u.value \in Nat /\ u.increments \in [Tids -> Nat] /\ u.evens \in [Tids -> Nat]
         /\ Total(u.reads) \in Nat /\ Total(Plus1(u.reads, x)) = Total(u.reads) + 1
<1>1. u.reads \in [Tids -> Nat] /\ IsFiniteSet(Tids)
  BY TraceAssumption DEF States
<1>2. Total(u.reads) \in Nat /\ Total([u.reads EXCEPT ![x] = @ + 1]) = Total(u.reads) + 1
  BY <1>1, TotalPlus1
<1> QED BY <1>2 DEF Counted, States, Plus1

LEMMA ReadCounted ==
  ASSUME NEW c \in BOOLEAN, NEW u \in States, NEW x \in Tids, NEW v, v = Counted(c, u, x, None)
  PROVE  /\ v.address = u.address /\ v.size = u.size /\ v.active = u.active
         /\ v.value = u.value /\ v.increments = u.increments /\ v.evens = u.evens
         /\ v.reads = IF c THEN Plus1(u.reads, x) ELSE u.reads
         /\ Total(u.reads) \in Nat /\ Total(Plus1(u.reads, x)) = Total(u.reads) + 1
<1>1. u.reads \in [Tids -> Nat] /\ IsFiniteSet(Tids)
  BY TraceAssumption DEF States
<1>2. Total(u.reads) \in Nat /\ Total([u.reads EXCEPT ![x] = @ + 1]) = Total(u.reads) + 1
  BY <1>1, TotalPlus1
<1>3. None # Counter
  BY DEF None, Counter, Operand, SpecialAddress
<1> QED BY <1>2, <1>3 DEF Counted, States, Plus1

\* Plus1 at the id of a thread, and at the other threads' ids.
LEMMA Plus1At ==
  ASSUME KnobsOK, NEW f \in [Tids -> Nat], NEW t \in Threads, NEW w \in Threads
  PROVE  Plus1(f, TidOf(t))[TidOf(w)] = IF w = t THEN f[TidOf(w)] + 1 ELSE f[TidOf(w)]
<1>1. TidOf(t) \in Tids /\ TidOf(w) \in Tids /\ (TidOf(t) = TidOf(w) => t = w)
  BY TidsDiffer
<1> QED BY <1>1 DEF Plus1

\* The number of failures in all.
LEMMA Failures ==
  ASSUME ProgramInv
  PROVE  /\ Total(fail_count) \in Nat /\ (~cas => Total(fail_count) = 0)
         /\ \A t \in Threads :
              Total([fail_count EXCEPT ![t] = @ + 1]) = Total(fail_count) + 1
<1>1. fail_count \in [Threads -> Nat] /\ IsFiniteSet(Threads) /\ cas \in BOOLEAN
  BY Constants DEF ProgramInv, IncInv, TypeInv
<1>2. \A t \in Threads : /\ Total(fail_count) \in Nat
                         /\ Total([fail_count EXCEPT ![t] = @ + 1]) = Total(fail_count) + 1
  BY <1>1, TotalPlus1
<1>3. 0 \in Threads
  BY DEF Threads
<1>4. ASSUME ~cas PROVE Total(fail_count) = 0
  <2>1. fail_count = [t \in Threads |-> 0]
    BY <1>1, <1>4 DEF ProgramInv, CasInv
  <2> QED BY <1>1, <2>1, TotalOfZeros
<1> QED BY <1>2, <1>3, <1>4

\* The number of threads at a compare-and-swap.
LEMMA CasThreads ==
  /\ IsFiniteSet(InCas) /\ Cardinality(InCas) \in Nat
  /\ \A t \in Threads : /\ t \notin InCas => Cardinality(InCas \cup {t}) = Cardinality(InCas) + 1
                        /\ t \in InCas => Cardinality(InCas \ {t}) = Cardinality(InCas) - 1
<1>1. InCas \subseteq Threads /\ IsFiniteSet(Threads)
  BY Constants DEF InCas
<1>2. IsFiniteSet(InCas) /\ Cardinality(InCas) \in Nat
  BY <1>1, FS_Subset, FS_CardinalityType
<1> QED BY <1>2, FS_AddElement, FS_RemoveElement

\* An increment, by whatever instruction.
LEMMA IncrementFollows ==
  ASSUME ProgramInv, KnobsOK, UNCHANGED knobs, NEW t \in Threads, Increment(t),
         UNCHANGED <<cas, fail_count>>, cas <=> pc[t] = "cas"
  PROVE  Follows(Access(t, Counter, Counter))
<1> SUFFICES ASSUME NEW u \in States, Matches(u)
             PROVE  \E v \in States : Path(cas, u, Access(t, Counter, Counter), v) /\ Matches(v)'
  BY DEF Follows
<1> UNCHANGED <<register_threads, require_roi, log_cas_fails>>
  BY DEF knobs
<1>1. /\ pc[t] \in {"loop", "cas"} /\ counter' = counter + 1
      /\ even_count' = [even_count EXCEPT ![t] = IF counter % 2 = 0 THEN @ + 1 ELSE @]
      /\ count' = [count EXCEPT ![t] = @ + 1]
      /\ pc' = [pc EXCEPT ![t] = IF Again(counter) THEN "loop" ELSE "bar3"]
  BY DEF Increment, CountInc, GoTo
<1>2. /\ cas \in BOOLEAN /\ pc \in [Parties -> Places] /\ counter \in Nat
      /\ count \in [Threads -> Nat] /\ even_count \in [Threads -> Nat]
      /\ fail_count \in [Threads -> Nat]
  BY DEF ProgramInv, IncInv, TypeInv
<1>3. /\ Traced(t) /\ UserId(t) = TidOf(t) /\ TidOf(t) \in Tids
      /\ u.address = SpecialAddress /\ u.size = CounterSize
      /\ pc[Main] \in {"bar2", "bar3"} /\ t # Main /\ t \in Parties /\ Main \in Parties
      /\ Alive(t)
  BY <1>1, InLoop
<1>4. PICK v \in States : /\ v = Counted(cas, u, TidOf(t), Counter)
                          /\ Path(cas, u, Access(t, Counter, Counter), v)
  <2>1. /\ Counted(cas, u, UserId(t), Counter) \in States
        /\ Path(cas, u, Access(t, Counter, Counter), Counted(cas, u, UserId(t), Counter))
    BY <1>3, CountedAccess
  <2> QED BY <1>3, <2>1
<1>5. /\ \A w \in Threads : Alive(w)' <=> Alive(w)
      /\ \A w \in Threads : pc'[w] = "cas" <=> pc[w] = "cas" /\ w # t
      /\ pc'[Main] = pc[Main]
  BY <1>1, <1>2, <1>3, Constants DEF Alive
<1>6. ActiveIds' = ActiveIds /\ MainReads' = MainReads
  BY <1>5 DEF ActiveIds, TidOf, MainReads
<1>7. InCas' = InCas \ {t} /\ (t \in InCas <=> cas)
  BY <1>5 DEF InCas
<1>8. /\ Total(fail_count) \in Nat /\ (~cas => Total(fail_count) = 0)
  BY Failures
<1>9. cas => ReadsOfThreads' = ReadsOfThreads + 1 /\ ReadsOfThreads \in Nat
  <2> SUFFICES ASSUME cas PROVE ReadsOfThreads' = ReadsOfThreads + 1 /\ ReadsOfThreads \in Nat
    OBVIOUS
  <2>1. Cardinality(InCas') = Cardinality(InCas) - 1 /\ Cardinality(InCas) \in Nat
    BY <1>7, CasThreads
  <2> QED BY <1>1, <1>2, <1>8, <2>1 DEF ReadsOfThreads
<1>10. /\ v.address = u.address /\ v.size = u.size /\ v.active = u.active
       /\ v.value = u.value + 1
       /\ v.increments = Plus1(u.increments, TidOf(t))
       /\ v.evens = IF ~cas /\ u.value % 2 = 0 THEN Plus1(u.evens, TidOf(t)) ELSE u.evens
       /\ v.reads = IF cas THEN Plus1(u.reads, TidOf(t)) ELSE u.reads
       /\ u.value \in Nat /\ u.increments \in [Tids -> Nat] /\ u.evens \in [Tids -> Nat]
       /\ Total(u.reads) \in Nat /\ Total(Plus1(u.reads, TidOf(t))) = Total(u.reads) + 1
  <2> PICK x \in Tids : x = TidOf(t)
    BY <1>3
  <2>1. v = Counted(cas, u, x, Counter) /\ cas \in BOOLEAN
    BY <1>2, <1>4
  <2> QED BY <2>1, IncrementCounted
<1>11. /\ u.value = counter + (IF log_cas_fails THEN Total(fail_count) ELSE 0)
       /\ \A w \in Threads :
            /\ u.increments[TidOf(w)] = count[w] + (IF log_cas_fails THEN fail_count[w] ELSE 0)
            /\ ~cas => u.evens[TidOf(w)] = even_count[w]
  BY DEF Matches, CountsMatch
<1>12. ~cas => u.value = counter
  BY <1>2, <1>8, <1>11
<1>13. v.value = counter' + (IF log_cas_fails THEN Total(fail_count) ELSE 0)
  BY <1>1, <1>2, <1>8, <1>10, <1>11
<1>14. ASSUME NEW w \in Threads
       PROVE  v.increments[TidOf(w)] = count'[w] + (IF log_cas_fails THEN fail_count[w] ELSE 0)
  <2>1. v.increments[TidOf(w)] = IF w = t THEN u.increments[TidOf(w)] + 1
                                 ELSE u.increments[TidOf(w)]
    BY <1>10, Plus1At
  <2>2. count'[w] = IF w = t THEN count[w] + 1 ELSE count[w]
    BY <1>1, <1>2
  <2>3. count[w] \in Nat /\ fail_count[w] \in Nat
    BY <1>2
  <2> QED BY <1>11, <2>1, <2>2, <2>3
<1>15. ASSUME NEW w \in Threads, ~cas PROVE v.evens[TidOf(w)] = even_count'[w]
  <2>1. Plus1(u.evens, TidOf(t))[TidOf(w)] = IF w = t THEN u.evens[TidOf(w)] + 1
                                             ELSE u.evens[TidOf(w)]
    BY <1>10, Plus1At
  <2>2. even_count'[w] = IF w = t /\ counter % 2 = 0 THEN even_count[w] + 1 ELSE even_count[w]
    BY <1>1, <1>2
  <2> QED BY <1>10, <1>11, <1>12, <1>15, <2>1, <2>2
<1>16. CountsMatch(v)'
  <2>1. \A w \in Threads : TidOf(w)' = TidOf(w)
    BY DEF TidOf
  <2> QED BY <1>13, <1>14, <1>15, <2>1 DEF CountsMatch
<1>17. AddressMatches(v)'
  BY <1>3, <1>5, <1>10 DEF AddressMatches
<1>18. ReadsMatch(v)'
  <2> SUFFICES ASSUME cas, ~log_cas_fails
               PROVE  IF register_threads \/ require_roi
                      THEN Total(v.reads) = ReadsOfThreads'
                      ELSE Total(v.reads) >= ReadsOfThreads' + MainReads'
    BY DEF ReadsMatch
  <2>1. Total(v.reads) = Total(u.reads) + 1 /\ Total(u.reads) \in Nat
    BY <1>10
  <2>2. IF register_threads \/ require_roi
        THEN Total(u.reads) = ReadsOfThreads
        ELSE Total(u.reads) >= ReadsOfThreads + MainReads
    BY DEF Matches, ReadsMatch
  <2>3. MainReads' = MainReads /\ MainReads \in Nat
    BY <1>6 DEF MainReads
  <2>4. ReadsOfThreads' = ReadsOfThreads + 1 /\ ReadsOfThreads \in Nat
    BY <1>9
  <2> QED BY <2>1, <2>2, <2>3, <2>4
<1>19. v.active = ActiveIds'
  BY <1>6, <1>10 DEF Matches
<1>20. Matches(v)'
  BY <1>16, <1>17, <1>18, <1>19 DEF Matches
<1> QED BY <1>4, <1>20


\* The read before a loop around a compare-and-swap.
LEMMA ReadFollows ==
  ASSUME ProgramInv, KnobsOK, UNCHANGED knobs, NEW t \in Threads, ReadCounter(t)
  PROVE  Follows(Access(t, Counter, None))
<1> SUFFICES ASSUME NEW u \in States, Matches(u)
             PROVE  \E v \in States : Path(cas, u, Access(t, Counter, None), v) /\ Matches(v)'
  BY DEF Follows
<1> UNCHANGED <<register_threads, require_roi, log_cas_fails>>
  BY DEF knobs
<1>1. /\ pc[t] = "loop" /\ cas /\ pc' = [pc EXCEPT ![t] = "cas"]
      /\ UNCHANGED <<cas, counter, count, even_count, fail_count>>
  BY DEF ReadCounter, GoTo, counts
<1>2. /\ cas \in BOOLEAN /\ pc \in [Parties -> Places] /\ counter \in Nat
  BY DEF ProgramInv, IncInv, TypeInv
<1>3. /\ Traced(t) /\ UserId(t) = TidOf(t) /\ TidOf(t) \in Tids
      /\ u.address = SpecialAddress /\ u.size = CounterSize
      /\ pc[Main] \in {"bar2", "bar3"} /\ t # Main /\ t \in Parties /\ Main \in Parties
      /\ Alive(t)
  BY <1>1, InLoop
<1>4. PICK v \in States : /\ v = Counted(cas, u, TidOf(t), None)
                          /\ Path(cas, u, Access(t, Counter, None), v)
  <2>1. /\ Counted(cas, u, UserId(t), None) \in States
        /\ Path(cas, u, Access(t, Counter, None), Counted(cas, u, UserId(t), None))
    BY <1>3, CountedAccess
  <2> QED BY <1>3, <2>1
<1>5. /\ \A w \in Threads : Alive(w)' <=> Alive(w)
      /\ \A w \in Threads : pc'[w] = "cas" <=> pc[w] = "cas" \/ w = t
      /\ pc'[Main] = pc[Main]
  BY <1>1, <1>2, <1>3, Constants DEF Alive
<1>6. ActiveIds' = ActiveIds /\ MainReads' = MainReads
  BY <1>5 DEF ActiveIds, TidOf, MainReads
<1>7. InCas' = InCas \cup {t} /\ t \notin InCas
  BY <1>1, <1>5 DEF InCas
<1>8. ReadsOfThreads' = ReadsOfThreads + 1 /\ ReadsOfThreads \in Nat
  <2>1. Cardinality(InCas') = Cardinality(InCas) + 1 /\ Cardinality(InCas) \in Nat
    BY <1>7, CasThreads
  <2>2. Total(fail_count) \in Nat
    BY Failures
  <2> QED BY <1>1, <1>2, <2>1, <2>2 DEF ReadsOfThreads
<1>9. /\ v.address = u.address /\ v.size = u.size /\ v.active = u.active
      /\ v.value = u.value /\ v.increments = u.increments /\ v.evens = u.evens
      /\ Total(v.reads) = Total(u.reads) + 1 /\ Total(u.reads) \in Nat
  <2> PICK x \in Tids : x = TidOf(t)
    BY <1>3
  <2>1. v = Counted(cas, u, x, None) /\ cas \in BOOLEAN
    BY <1>2, <1>4
  <2>2. /\ v.address = u.address /\ v.size = u.size /\ v.active = u.active
        /\ v.value = u.value /\ v.increments = u.increments /\ v.evens = u.evens
        /\ v.reads = IF cas THEN Plus1(u.reads, x) ELSE u.reads
        /\ Total(u.reads) \in Nat /\ Total(Plus1(u.reads, x)) = Total(u.reads) + 1
    BY <2>1, ReadCounted
  <2> QED BY <1>1, <2>2
<1>10. AddressMatches(v)' /\ CountsMatch(v)'
  BY <1>1, <1>5, <1>9 DEF Matches, AddressMatches, CountsMatch, TidOf
<1>11. ReadsMatch(v)'
  BY <1>1, <1>6, <1>8, <1>9 DEF Matches, ReadsMatch, MainReads
<1>12. v.active = ActiveIds'
  BY <1>6, <1>9 DEF Matches
<1> QED BY <1>4, <1>10, <1>11, <1>12 DEF Matches

\* A compare-and-swap that fails is one failure more to the program, and to the
\* simulator an increment or a read.
LEMMA FailureFollows ==
  ASSUME ProgramInv, KnobsOK, UNCHANGED knobs, NEW t \in Threads, pc[t] = "cas",
         fail_count' = [fail_count EXCEPT ![t] = @ + 1],
         UNCHANGED <<cas, pc, counter, count, even_count>>,
         NEW w, w = IF log_cas_fails THEN Counter ELSE None
  PROVE  Follows(Access(t, Counter, w))
<1> SUFFICES ASSUME NEW u \in States, Matches(u)
             PROVE  \E v \in States : Path(cas, u, Access(t, Counter, w), v) /\ Matches(v)'
  BY DEF Follows
<1> UNCHANGED <<register_threads, require_roi, log_cas_fails>>
  BY DEF knobs
<1>1. cas /\ cas \in BOOLEAN /\ counter \in Nat
      /\ count \in [Threads -> Nat] /\ fail_count \in [Threads -> Nat]
  BY DEF ProgramInv, CasInv, IncInv, TypeInv
<1>2. /\ Traced(t) /\ UserId(t) = TidOf(t) /\ TidOf(t) \in Tids /\ t \in Parties
      /\ u.address = SpecialAddress /\ u.size = CounterSize
  BY InLoop
<1>3. PICK v \in States : /\ v = Counted(cas, u, TidOf(t), w)
                          /\ Path(cas, u, Access(t, Counter, w), v)
  <2>1. w \in {Counter, None}
    OBVIOUS
  <2>2. /\ Counted(cas, u, UserId(t), w) \in States
        /\ Path(cas, u, Access(t, Counter, w), Counted(cas, u, UserId(t), w))
    BY <1>2, <2>1, CountedAccess
  <2> QED BY <1>2, <2>2
<1> PICK x \in Tids : x = TidOf(t)
  BY <1>2
<1>4. v = Counted(cas, u, x, w)
  BY <1>3
<1>5. ActiveIds' = ActiveIds /\ MainReads' = MainReads /\ InCas' = InCas
  BY DEF ActiveIds, Alive, TidOf, MainReads, InCas
<1>6. Total(fail_count)' = Total(fail_count) + 1 /\ Total(fail_count) \in Nat
  BY Failures
<1>7. ReadsOfThreads' = ReadsOfThreads + 1 /\ ReadsOfThreads \in Nat
  BY <1>1, <1>5, <1>6, CasThreads DEF ReadsOfThreads
<1>8. \A i \in Threads : fail_count'[i] = IF i = t THEN fail_count[i] + 1 ELSE fail_count[i]
  BY <1>1
<1>9. CASE log_cas_fails
  <2>1. /\ v.address = u.address /\ v.size = u.size /\ v.active = u.active
        /\ v.value = u.value + 1 /\ v.increments = Plus1(u.increments, x)
        /\ u.value \in Nat /\ u.increments \in [Tids -> Nat]
    <3>1. v = Counted(cas, u, x, Counter) /\ cas \in BOOLEAN
      BY <1>1, <1>4, <1>9
    <3> QED BY <3>1, IncrementCounted
  <2>2. v.value = counter + Total(fail_count)'
    BY <1>1, <1>6, <1>9, <2>1 DEF Matches, CountsMatch
  <2>3. ASSUME NEW i \in Threads PROVE v.increments[TidOf(i)] = count[i] + fail_count'[i]
    <3>1. v.increments[TidOf(i)] = IF i = t THEN u.increments[TidOf(i)] + 1
                                   ELSE u.increments[TidOf(i)]
      BY <2>1, Plus1At
    <3>2. u.increments[TidOf(i)] = count[i] + fail_count[i]
      BY <1>9 DEF Matches, CountsMatch
    <3>3. count[i] \in Nat /\ fail_count[i] \in Nat
      BY <1>1
    <3> QED BY <1>8, <3>1, <3>2, <3>3
  <2>4. \A i \in Threads : TidOf(i)' = TidOf(i)
    BY DEF TidOf
  <2>5. CountsMatch(v)'
    BY <1>1, <1>9, <2>2, <2>3, <2>4 DEF CountsMatch
  <2>6. AddressMatches(v)' /\ ReadsMatch(v)' /\ v.active = ActiveIds'
    BY <1>5, <1>9, <2>1 DEF Matches, AddressMatches, ReadsMatch
  <2> QED BY <1>3, <2>5, <2>6 DEF Matches
<1>10. CASE ~log_cas_fails
  <2>1. /\ v.address = u.address /\ v.size = u.size /\ v.active = u.active
        /\ v.value = u.value /\ v.increments = u.increments
        /\ Total(v.reads) = Total(u.reads) + 1 /\ Total(u.reads) \in Nat
    <3>1. v = Counted(cas, u, x, None) /\ cas \in BOOLEAN
      BY <1>1, <1>4, <1>10
    <3>2. /\ v.address = u.address /\ v.size = u.size /\ v.active = u.active
          /\ v.value = u.value /\ v.increments = u.increments
          /\ v.reads = IF cas THEN Plus1(u.reads, x) ELSE u.reads
          /\ Total(u.reads) \in Nat /\ Total(Plus1(u.reads, x)) = Total(u.reads) + 1
      BY <3>1, ReadCounted
    <3> QED BY <1>1, <3>2
  <2>2. AddressMatches(v)' /\ CountsMatch(v)'
    BY <1>1, <1>10, <2>1 DEF Matches, AddressMatches, CountsMatch, TidOf
  <2>3. ReadsMatch(v)'
    BY <1>1, <1>5, <1>7, <1>10, <2>1 DEF Matches, ReadsMatch, MainReads
  <2> QED BY <1>3, <1>5, <2>1, <2>2, <2>3 DEF Matches
<1> QED BY <1>9, <1>10 DEF KnobsOK

\* A step of a thread between the barriers, with its line.
LEMMA ThreadFollows ==
  ASSUME ProgramInv, KnobsOK, UNCHANGED knobs, NEW t \in Threads
  PROVE  /\ FetchAdd(t) => Follows(Access(t, Counter, Counter))
         /\ CompareAndSwap(t) => Follows(Access(t, Counter, CASWrite(t)))
<1>1. ASSUME FetchAdd(t) PROVE Follows(Access(t, Counter, Counter))
  <2>1. Increment(t) /\ UNCHANGED <<cas, fail_count>> /\ pc[t] = "loop" /\ ~cas
    BY <1>1 DEF FetchAdd, Increment
  <2>2. cas <=> pc[t] = "cas"
    BY <2>1
  <2> QED BY <2>1, <2>2, IncrementFollows
<1>2. ASSUME CompareAndSwap(t) PROVE Follows(Access(t, Counter, CASWrite(t)))
  <2>1. pc[t] = "cas" /\ cas /\ UNCHANGED cas
    BY <1>2 DEF CompareAndSwap, ProgramInv, CasInv
  <2>2. CASE Swaps(t)
    <3>1. Increment(t) /\ UNCHANGED fail_count
      BY <1>2, <2>1, <2>2 DEF CompareAndSwap, Increment, Swaps
    <3>2. CASWrite(t) = Counter
      BY <2>2 DEF CASWrite
    <3>3. Follows(Access(t, Counter, Counter))
      BY <2>1, <3>1, IncrementFollows
    <3> QED BY <3>2, <3>3
  <2>3. CASE ~Swaps(t)
    <3>1. /\ fail_count' = [fail_count EXCEPT ![t] = @ + 1]
          /\ UNCHANGED <<cas, pc, counter, count, even_count>>
      BY <1>2, <2>3 DEF CompareAndSwap, counts
    <3>2. PICK w : w = IF log_cas_fails THEN Counter ELSE None
      OBVIOUS
    <3>3. CASWrite(t) = w
      BY <2>3, <3>2 DEF CASWrite
    <3>4. Follows(Access(t, Counter, w))
      BY <2>1, <3>1, <3>2, FailureFollows
    <3> QED BY <3>3, <3>4
  <2> QED BY <2>2, <2>3
<1> QED BY <1>1, <1>2

-----------------------------------------------------------------------------
\* The lines of main.

\* All but the reads
SameButReads(u, v) ==
  /\ v.address = u.address /\ v.size = u.size /\ v.value = u.value /\ v.active = u.active
  /\ v.increments = u.increments /\ v.evens = u.evens

LEMMA TotalNat == \A u \in States : Total(u.reads) \in Nat
<1>1. IsFiniteSet(Tids) /\ 0 \in Tids
  BY TraceAssumption
<1> SUFFICES ASSUME NEW u \in States PROVE Total(u.reads) \in Nat
  OBVIOUS
<1>2. u.reads \in [Tids -> Nat]
  BY DEF States
<1> QED BY <1>1, <1>2, TotalPlus1

\* A read of main
LEMMA MainAccess ==
  ASSUME ProgramInv, KnobsOK, NEW r \in {Counter, SecondWord, BlockSize},
         NEW u \in States, u.address = SpecialAddress, u.size = CounterSize
  PROVE  \E v \in States :
           /\ Path(cas, u, Access(Main, r, None), v) /\ SameButReads(u, v)
           /\ ~Traced(Main) => v.reads = u.reads
           /\ Total(v.reads) = IF cas /\ Traced(Main) THEN Total(u.reads) + 1 ELSE Total(u.reads)
<1>1. Main \in Parties /\ cas \in BOOLEAN
  BY Constants DEF ProgramInv, IncInv, TypeInv
<1>2. <<r, None>> \in {<<Counter, None>>, <<SecondWord, None>>, <<BlockSize, None>>}
  OBVIOUS
<1>3. CASE ~Traced(Main)
  <2>1. Access(Main, r, None) = <<>>
    BY <1>1, <1>2, <1>3, AccessLines
  <2> QED BY <1>3, <2>1, PathEmpty DEF SameButReads
<1>4. CASE Traced(Main)
  <2> PICK x \in Tids : x = UserId(Main)
    BY <1>1, <1>4, UserIds
  <2>1. PICK v \in States : /\ v = Counted(cas, u, x, None)
                            /\ Path(cas, u, Access(Main, r, None), v)
    <3>1. /\ Counted(cas, u, UserId(Main), None) \in States
          /\ Path(cas, u, Access(Main, r, None), Counted(cas, u, UserId(Main), None))
      BY <1>1, <1>2, <1>4, CountedAccess
    <3> QED BY <3>1
  <2>2. /\ v.address = u.address /\ v.size = u.size /\ v.active = u.active
        /\ v.value = u.value /\ v.increments = u.increments /\ v.evens = u.evens
        /\ v.reads = IF cas THEN Plus1(u.reads, x) ELSE u.reads
        /\ Total(u.reads) \in Nat /\ Total(Plus1(u.reads, x)) = Total(u.reads) + 1
    BY <1>1, <2>1, ReadCounted
  <2> QED BY <1>4, <2>1, <2>2 DEF SameButReads
<1> QED BY <1>3, <1>4

\* A step of main alone
MainMoves(place, next) ==
  /\ pc[Main] = place /\ pc' = [pc EXCEPT ![Main] = next]
  /\ UNCHANGED <<cas, counter, count, even_count, fail_count>>

LEMMA MainMovesOnly ==
  ASSUME ProgramInv, KnobsOK, UNCHANGED knobs, NEW place, NEW next, MainMoves(place, next)
  PROVE  /\ pc'[Main] = next /\ UNCHANGED <<register_threads, require_roi, log_cas_fails>>
         /\ InCas' = InCas /\ ReadsOfThreads' = ReadsOfThreads /\ ReadsOfThreads \in Nat
         /\ {TidOf(t) : t \in {t \in Threads : Alive(t)}}' = {TidOf(t) : t \in {t \in Threads : Alive(t)}}
         /\ \A u : CountsMatch(u) => CountsMatch(u)'
<1> UNCHANGED <<register_threads, require_roi, log_cas_fails>>
  BY DEF knobs
<1>1. pc \in [Parties -> Places] /\ counter \in Nat
  BY DEF ProgramInv, IncInv, TypeInv
<1>2. pc'[Main] = next /\ \A t \in Threads : pc'[t] = pc[t]
  BY <1>1, Constants DEF MainMoves
<1>3. InCas' = InCas
  BY <1>2 DEF InCas
<1>4. ReadsOfThreads' = ReadsOfThreads /\ ReadsOfThreads \in Nat
  BY <1>1, <1>3, Failures, CasThreads DEF ReadsOfThreads, MainMoves
<1>5. \A t \in Threads : TidOf(t)' = TidOf(t) /\ (Alive(t)' <=> Alive(t))
  BY <1>2 DEF TidOf, Alive
<1>6. \A u : CountsMatch(u) => CountsMatch(u)'
  BY DEF CountsMatch, MainMoves, TidOf
<1> QED BY <1>2, <1>3, <1>4, <1>5, <1>6

\* Lines of a function call or return, and of main's beginning and end
LEMMA FunctionIsLine ==
  ASSUME ProgramInv, KnobsOK, NEW what \in {"fc", "fr"},
         NEW fn \in {"special_malloc", "special_free"}, NEW value \in Nat
  PROVE  \E line \in TraceLines :
           /\ Function(what, fn, value) = <<line>>
           /\ line.op = what /\ line.name = fn /\ line.value = value
<1>1. UserId(Main) \in Int
  BY UserIds, Constants
<1> DEFINE line == [op |-> what, tid |-> UserId(Main), name |-> fn, value |-> value]
<1>2. line \in FunctionLines
  BY <1>1 DEF FunctionLines
<1>3. Function(what, fn, value) = <<line>> /\ line.op = what /\ line.name = fn /\ line.value = value
  BY DEF Function
<1> HIDE DEF line
<1> QED BY <1>2, <1>3 DEF TraceLines

LEMMA MallocFollows ==
  ASSUME ProgramInv, KnobsOK, UNCHANGED knobs, MainMoves("malloc", "create")
  PROVE  LET lines == Function("fc", "special_malloc", CounterSize)
                        \o Function("fr", "special_malloc", SpecialAddress)
                        \o Access(Main, None, Counter)
         IN Follows(lines) /\ lines \in Seq(TraceLines) /\ Len(lines) <= 3
<1>1. PICK call \in TraceLines :
        /\ Function("fc", "special_malloc", CounterSize) = <<call>>
        /\ call.op = "fc" /\ call.name = "special_malloc" /\ call.value = CounterSize
  BY FunctionIsLine DEF CounterSize
<1>2. PICK return \in TraceLines :
        /\ Function("fr", "special_malloc", SpecialAddress) = <<return>>
        /\ return.op = "fr" /\ return.name = "special_malloc" /\ return.value = SpecialAddress
  BY FunctionIsLine DEF SpecialAddress
<1> PICK set : set = Access(Main, None, Counter)
  OBVIOUS
<1>3. set \in Seq(TraceLines) /\ Len(set) <= 1 /\ Quiet(set)
  BY Constants, AccessLines, QuietAccess
<1>4. <<call>> \o <<return>> \o set \in Seq(TraceLines) /\ Len(<<call>> \o <<return>> \o set) <= 3
  <2>1. Len(set) \in Nat
    BY <1>3
  <2> QED BY <1>3, <2>1
<1>5. ASSUME NEW u \in States, Matches(u)
      PROVE  \E v \in States : Path(cas, u, <<call>> \o <<return>> \o set, v) /\ Matches(v)'
  <2>1. u.address = 0 /\ u.size = 0
    BY <1>5 DEF Matches, AddressMatches, MainMoves
  <2>2. [u EXCEPT !.size = CounterSize] \in States
    BY DEF States, Sizes
  <2> PICK a \in States : a = [u EXCEPT !.size = CounterSize]
    BY <2>2
  <2>3. [a EXCEPT !.address = SpecialAddress] \in States
    BY DEF States, Addresses
  <2> PICK v \in States : v = [a EXCEPT !.address = SpecialAddress]
    BY <2>3
  <2>4. Path(cas, u, <<call>>, a)
    <3>1. Simulates(cas, u, call, a)
      BY <1>1, <2>1 DEF Simulates, Notes
    <3> QED BY <3>1, PathOne
  <2>5. Path(cas, a, <<return>>, v)
    <3>1. a.address = 0 /\ a.size = CounterSize
      BY <2>1 DEF States
    <3>2. Simulates(cas, a, return, v)
      BY <1>2, <3>1 DEF Simulates, Notes
    <3> QED BY <3>2, PathOne
  <2>6. Path(cas, v, set, v)
    BY <1>3 DEF Quiet
  <2>7. <<call>> \in Seq(TraceLines) /\ <<return>> \in Seq(TraceLines)
        /\ <<call>> \o <<return>> \in Seq(TraceLines)
    OBVIOUS
  <2>8. Path(cas, u, <<call>> \o <<return>>, v)
    BY <2>4, <2>5, <2>7, PathConcat
  <2>9. Path(cas, u, <<call>> \o <<return>> \o set, v)
    BY <1>3, <2>6, <2>7, <2>8, PathConcat
  <2>10. /\ v.address = SpecialAddress /\ v.size = CounterSize /\ v.value = u.value
         /\ v.active = u.active /\ v.increments = u.increments /\ v.evens = u.evens
         /\ v.reads = u.reads
    BY DEF States
  <2>11. /\ pc'[Main] = "create" /\ pc[Main] = "malloc"
         /\ UNCHANGED <<register_threads, require_roi, log_cas_fails>>
         /\ ReadsOfThreads' = ReadsOfThreads /\ UNCHANGED cas
         /\ {TidOf(t) : t \in {t \in Threads : Alive(t)}}' = {TidOf(t) : t \in {t \in Threads : Alive(t)}}
         /\ CountsMatch(u)'
    BY <1>5, MainMovesOnly DEF MainMoves, Matches
  <2>12. AddressMatches(v)'
    BY <2>10, <2>11 DEF AddressMatches
  <2>13. v.active = ActiveIds'
    BY <1>5, <2>10, <2>11 DEF Matches, ActiveIds
  <2>14. CountsMatch(v)'
    BY <2>10, <2>11 DEF CountsMatch
  <2>15. MainReads' = MainReads
    BY <2>11 DEF MainReads
  <2>16. ReadsMatch(v)'
    BY <1>5, <2>10, <2>11, <2>15 DEF Matches, ReadsMatch
  <2> QED BY <2>9, <2>12, <2>13, <2>14, <2>16 DEF Matches
<1> QED BY <1>1, <1>2, <1>4, <1>5 DEF Follows

\* main's check of the counter reads it.
LEMMA CheckFollows ==
  ASSUME ProgramInv, KnobsOK, UNCHANGED knobs, NEW next \in {"free", "failed"},
         MainMoves("check", next)
  PROVE  Follows(Access(Main, Counter, None))
<1> SUFFICES ASSUME NEW u \in States, Matches(u)
             PROVE  \E v \in States : Path(cas, u, Access(Main, Counter, None), v) /\ Matches(v)'
  BY DEF Follows
<1>1. /\ pc'[Main] = next /\ pc[Main] = "check"
      /\ UNCHANGED <<register_threads, require_roi, log_cas_fails>>
      /\ ReadsOfThreads' = ReadsOfThreads /\ ReadsOfThreads \in Nat /\ UNCHANGED cas
      /\ {TidOf(t) : t \in {t \in Threads : Alive(t)}}' = {TidOf(t) : t \in {t \in Threads : Alive(t)}}
      /\ CountsMatch(u)'
  BY MainMovesOnly DEF MainMoves, Matches
<1>2. u.address = SpecialAddress /\ u.size = CounterSize
  BY <1>1 DEF Matches, AddressMatches
<1>3. PICK v \in States :
        /\ Path(cas, u, Access(Main, Counter, None), v) /\ SameButReads(u, v)
        /\ ~Traced(Main) => v.reads = u.reads
        /\ Total(v.reads) = IF cas /\ Traced(Main) THEN Total(u.reads) + 1 ELSE Total(u.reads)
  BY <1>2, MainAccess
<1>4. AddressMatches(v)' /\ CountsMatch(v)'
  BY <1>1, <1>2, <1>3 DEF SameButReads, AddressMatches, CountsMatch
<1>5. v.active = ActiveIds'
  BY <1>1, <1>3 DEF SameButReads, Matches, ActiveIds
<1>6. ReadsMatch(v)'
  <2>1. CASE register_threads \/ require_roi
    <3>1. ~Traced(Main)
      BY <1>1, <2>1, MainNotTraced
    <3> QED BY <1>1, <1>3, <2>1, <3>1 DEF Matches, ReadsMatch
  <2>2. CASE ~register_threads /\ ~require_roi
    <3>1. Traced(Main)
      BY <2>2, UserIds DEF Traced
    <3>2. MainReads = 0 /\ MainReads' = 1 /\ Total(u.reads) \in Nat
      BY <1>1, TotalNat DEF MainReads
    <3> SUFFICES ASSUME cas, ~log_cas_fails PROVE Total(v.reads) >= ReadsOfThreads' + MainReads'
      BY <1>1, <2>2 DEF ReadsMatch
    <3>3. Total(u.reads) >= ReadsOfThreads + MainReads
      BY <2>2 DEF Matches, ReadsMatch
    <3> QED BY <1>1, <1>3, <3>1, <3>2, <3>3
  <2> QED BY <2>1, <2>2 DEF KnobsOK
<1> QED BY <1>3, <1>4, <1>5, <1>6 DEF Matches

\* free looks at the block, and main ends.
LEMMA FreeFollows ==
  ASSUME ProgramInv, KnobsOK, UNCHANGED knobs, MainMoves("free", "done"),
         NEW more \in {<<>>, Access(Main, SecondWord, None)}
  PROVE  LET lines == Function("fc", "special_free", SpecialAddress)
                        \o Access(Main, BlockSize, None) \o more
                        \o Function("fr", "special_free", 0)
                        \o MainEvent("tf")
         IN Follows(lines) /\ lines \in Seq(TraceLines) /\ Len(lines) <= 5
<1>1. PICK call \in TraceLines :
        /\ Function("fc", "special_free", SpecialAddress) = <<call>>
        /\ call.op = "fc" /\ call.name = "special_free"
  BY FunctionIsLine DEF SpecialAddress
<1>2. PICK return \in TraceLines :
        /\ Function("fr", "special_free", 0) = <<return>>
        /\ return.op = "fr" /\ return.name = "special_free"
  BY FunctionIsLine
<1> PICK look : look = Access(Main, BlockSize, None)
  OBVIOUS
<1> PICK end : end = MainEvent("tf")
  OBVIOUS
<1>3. Quiet(<<call>>) /\ Quiet(<<return>>)
  BY <1>1, <1>2, QuietLine
<1>4. look \in Seq(TraceLines) /\ Len(look) <= 1
  BY Constants, AccessLines
<1>5. more \in Seq(TraceLines) /\ Len(more) <= 1
  <2>1. Access(Main, SecondWord, None) \in Seq(TraceLines) /\ Len(Access(Main, SecondWord, None)) <= 1
    BY Constants, AccessLines
  <2>2. <<>> \in Seq(TraceLines) /\ Len(<<>>) <= 1
    BY EmptySeq
  <2>3. more = <<>> \/ more = Access(Main, SecondWord, None)
    OBVIOUS
  <2> QED BY ONLY <2>1, <2>2, <2>3
<1>6. /\ end \in Seq(TraceLines) /\ Len(end) <= 1
      /\ register_threads => end = <<>>
      /\ ~register_threads =>
           \E line \in TraceLines : end = <<line>> /\ line.op = "tf" /\ line.tid = 0
  <2>1. CASE register_threads
    BY <2>1 DEF MainEvent
  <2>2. CASE ~register_threads
    <3>1. UserId(Main) = 0 /\ 0 \in Tids
      BY <2>2, UserIds, TidsDiffer
    <3> DEFINE line == [op |-> "tf", tid |-> 0]
    <3>2. line \in ThreadLines /\ end = <<line>> /\ line.op = "tf" /\ line.tid = 0
      BY <2>2, <3>1 DEF MainEvent, Event, ThreadLines
    <3> HIDE DEF line
    <3>3. line \in TraceLines
      BY <3>2 DEF TraceLines
    <3> HIDE DEF TraceLines
    <3>4. <<line>> \in Seq(TraceLines) /\ Len(<<line>>) = 1
      BY <3>3
    <3>5. end = <<line>> /\ line.op = "tf" /\ line.tid = 0
      BY <3>2
    <3>6. end \in Seq(TraceLines) /\ Len(end) = 1
      BY ONLY <3>4, <3>5
    <3>7. \E l \in TraceLines : end = <<l>> /\ l.op = "tf" /\ l.tid = 0
      BY ONLY <3>3, <3>5
    <3> QED BY ONLY <2>2, <3>6, <3>7
  <2> QED BY <2>1, <2>2 DEF KnobsOK
<1> DEFINE one == <<call>> \o look
           two == one \o more
           three == two \o <<return>>
           all == three \o end
<1>7. /\ <<call>> \in Seq(TraceLines) /\ <<return>> \in Seq(TraceLines)
      /\ one \in Seq(TraceLines) /\ two \in Seq(TraceLines) /\ three \in Seq(TraceLines)
      /\ all \in Seq(TraceLines) /\ Len(all) <= 5
  <2>1. Len(look) \in Nat /\ Len(more) \in Nat /\ Len(end) \in Nat
    BY <1>4, <1>5, <1>6
  <2>2. one \in Seq(TraceLines) /\ Len(one) = 1 + Len(look)
    BY <1>4, ConcatProperties
  <2> HIDE DEF one
  <2>3. two \in Seq(TraceLines) /\ Len(two) = Len(one) + Len(more)
    BY <1>5, <2>2, ConcatProperties
  <2> HIDE DEF two
  <2>4. three \in Seq(TraceLines) /\ Len(three) = Len(two) + 1
    BY <2>3, ConcatProperties
  <2> HIDE DEF three
  <2>5. all \in Seq(TraceLines) /\ Len(all) = Len(three) + Len(end)
    BY <1>6, <2>4, ConcatProperties
  <2> HIDE DEF all
  <2> QED BY <1>4, <1>5, <1>6, <2>1, <2>2, <2>3, <2>4, <2>5
<1>8. ASSUME NEW u \in States, Matches(u)
      PROVE  \E v \in States : Path(cas, u, all, v) /\ Matches(v)'
  <2>1. /\ pc'[Main] = "done" /\ pc[Main] = "free"
        /\ UNCHANGED <<register_threads, require_roi, log_cas_fails>>
        /\ ReadsOfThreads' = ReadsOfThreads /\ ReadsOfThreads \in Nat /\ UNCHANGED cas
        /\ {TidOf(t) : t \in {t \in Threads : Alive(t)}}' = {TidOf(t) : t \in {t \in Threads : Alive(t)}}
        /\ CountsMatch(u)'
    BY <1>8, MainMovesOnly DEF MainMoves, Matches
  <2>2. u.address = SpecialAddress /\ u.size = CounterSize
    BY <1>8, <2>1 DEF Matches, AddressMatches
  <2>3. PICK a \in States :
          /\ Path(cas, u, look, a) /\ SameButReads(u, a)
          /\ ~Traced(Main) => a.reads = u.reads
          /\ Total(a.reads) = IF cas /\ Traced(Main) THEN Total(u.reads) + 1 ELSE Total(u.reads)
    BY <2>2, MainAccess
  <2>4. PICK b \in States :
          /\ Path(cas, a, more, b) /\ SameButReads(a, b)
          /\ ~Traced(Main) => b.reads = a.reads
          /\ Total(b.reads) >= Total(a.reads)
    <3>1. Total(a.reads) \in Nat
      BY TotalNat
    <3>2. CASE more = <<>>
      BY <3>1, <3>2, PathEmpty DEF SameButReads
    <3>3. CASE more = Access(Main, SecondWord, None)
      <4>1. a.address = SpecialAddress /\ a.size = CounterSize
        BY <2>2, <2>3 DEF SameButReads
      <4>2. PICK b \in States :
              /\ Path(cas, a, Access(Main, SecondWord, None), b) /\ SameButReads(a, b)
              /\ ~Traced(Main) => b.reads = a.reads
              /\ Total(b.reads) = IF cas /\ Traced(Main) THEN Total(a.reads) + 1 ELSE Total(a.reads)
        BY <4>1, MainAccess
      <4> QED BY <3>1, <3>3, <4>2
    <3> QED BY <3>2, <3>3
  <2>5. Path(cas, u, three, b)
    <3>1. Path(cas, u, one, a)
      <4>1. Path(cas, u, <<call>>, u)
        BY <1>3 DEF Quiet
      <4> QED BY <1>4, <1>7, <2>3, <4>1, PathConcat
    <3>2. Path(cas, u, two, b)
      <4> HIDE DEF one
      <4> QED BY <1>5, <1>7, <2>4, <3>1, PathConcat
    <3>3. Path(cas, b, <<return>>, b)
      BY <1>3 DEF Quiet
    <3> HIDE DEF two
    <3> QED BY <1>7, <3>2, <3>3, PathConcat
  <2>6. PICK v \in States :
          /\ Path(cas, b, end, v) /\ SameButReads([b EXCEPT !.active = v.active], v)
          /\ v.reads = b.reads
          /\ v.active = IF register_threads THEN b.active ELSE b.active \ {0}
    <3>1. CASE register_threads
      <4>1. end = <<>>
        BY <1>6, <3>1
      <4>2. SameButReads([b EXCEPT !.active = b.active], b)
        BY DEF SameButReads, States
      <4> QED BY <3>1, <4>1, <4>2, PathEmpty
    <3>2. CASE ~register_threads
      <4>1. PICK line \in TraceLines : end = <<line>> /\ line.op = "tf" /\ line.tid = 0
        BY <1>6, <3>2
      <4>2. 0 \in b.active
        BY <1>8, <2>1, <2>3, <2>4, <3>2 DEF Matches, ActiveIds, SameButReads
      <4>3. [b EXCEPT !.active = @ \ {0}] \in States
        BY DEF States
      <4> PICK v \in States : v = [b EXCEPT !.active = @ \ {0}]
        BY <4>3
      <4>4. Simulates(cas, b, line, v)
        BY <4>1, <4>2 DEF Simulates, Notes
      <4>5. Path(cas, b, end, v)
        BY <4>1, <4>4, PathOne
      <4>6. v.active = b.active \ {0} /\ v.reads = b.reads
            /\ SameButReads([b EXCEPT !.active = v.active], v)
        BY DEF SameButReads, States
      <4> QED BY <3>2, <4>5, <4>6
    <3> QED BY <3>1, <3>2 DEF KnobsOK
  <2>7. Path(cas, u, all, v)
    <3> HIDE DEF three
    <3> QED BY <1>6, <1>7, <2>5, <2>6, PathConcat
  <2>8. /\ v.address = u.address /\ v.size = u.size /\ v.value = u.value /\ v.evens = u.evens
        /\ v.increments = u.increments
        /\ v.active = IF register_threads THEN u.active ELSE u.active \ {0}
    BY <2>3, <2>4, <2>6 DEF SameButReads, States
  <2>9. AddressMatches(v)' /\ CountsMatch(v)'
    BY <2>1, <2>2, <2>8 DEF AddressMatches, CountsMatch
  <2>10. v.active = ActiveIds'
    <3>1. u.active = ActiveIds
      BY <1>8 DEF Matches
    <3>2. ~register_threads => \A t \in Threads : TidOf(t) # 0
      BY TidsDiffer
    <3> QED BY <2>1, <2>8, <3>1, <3>2 DEF ActiveIds, KnobsOK
  <2>11. ReadsMatch(v)'
    <3>1. CASE register_threads \/ require_roi
      <4>1. ~Traced(Main)
        BY <2>1, <3>1, MainNotTraced
      <4>2. v.reads = u.reads
        BY <2>3, <2>4, <2>6, <4>1
      <4> QED BY <1>8, <2>1, <3>1, <4>2 DEF Matches, ReadsMatch
    <3>2. CASE ~register_threads /\ ~require_roi
      <4>1. Traced(Main)
        BY <3>2, UserIds DEF Traced
      <4>2. MainReads = 1 /\ MainReads' = 2
        BY <2>1 DEF MainReads
      <4>3. Total(u.reads) \in Nat /\ Total(a.reads) \in Nat /\ Total(b.reads) \in Nat
        BY TotalNat
      <4> SUFFICES ASSUME cas, ~log_cas_fails PROVE Total(v.reads) >= ReadsOfThreads' + MainReads'
        BY <2>1, <3>2 DEF ReadsMatch
      <4>4. Total(u.reads) >= ReadsOfThreads + MainReads
        BY <1>8, <3>2 DEF Matches, ReadsMatch
      <4>5. Total(a.reads) = Total(u.reads) + 1 /\ Total(b.reads) >= Total(a.reads)
            /\ Total(v.reads) = Total(b.reads)
        BY <2>3, <2>4, <2>6, <4>1
      <4> QED BY <2>1, <4>2, <4>3, <4>4, <4>5
    <3> QED BY <3>1, <3>2 DEF KnobsOK
  <2> QED BY <2>7, <2>9, <2>10, <2>11 DEF Matches
<1>9. Follows(all)
  BY <1>8 DEF Follows
<1> QED BY <1>1, <1>2, <1>7, <1>9

-----------------------------------------------------------------------------
\* Every step keeps the simulator in step with the program.

\* A step of the program keeps its invariant, and its kind.
LEMMA ProgramStep ==
  ASSUME ProgramInv,
         \/ MainStep
         \/ \E t \in Threads : ThreadStep(t)
         \/ \E p \in Parties : BarrierStep(p)
  PROVE  ProgramInv' /\ UNCHANGED cas
<1>1. ProgramInv'
  BY ProgramNext DEF Next
<1>2. MainStep => UNCHANGED cas
  BY DEF MainStep, Malloc, Create, StartRoi, EndRoi, Join, Check, Free
<1>3. (\E t \in Threads : ThreadStep(t)) => UNCHANGED cas
  BY DEF ThreadStep, Register, FetchAdd, ReadCounter, CompareAndSwap, Return
<1>4. (\E p \in Parties : BarrierStep(p)) => UNCHANGED cas
  BY DEF BarrierStep, Arrive, Pass
<1> QED BY <1>1, <1>2, <1>3, <1>4

\* Lines of events
LEMMA EventIsLine ==
  ASSUME ProgramInv, KnobsOK, NEW p \in Parties, NEW what \in {"start_roi", "end_roi", "ctxt_change"}
  PROVE  Quiet(Event(what, UserId(p))) /\ Event(what, UserId(p)) \in Seq(TraceLines)
         /\ Len(Event(what, UserId(p))) <= 5
<1> DEFINE line == [op |-> what, tid |-> UserId(p)]
<1>1. UserId(p) \in Int
  BY UserIds
<1>2. line \in OtherLines /\ line.op = what
  BY <1>1 DEF OtherLines
<1>3. Event(what, UserId(p)) = <<line>>
  BY DEF Event
<1> HIDE DEF line
<1>4. line \in TraceLines
  BY <1>2 DEF TraceLines
<1>5. Quiet(<<line>>)
  BY <1>2, <1>4, QuietLine
<1> HIDE DEF TraceLines
<1>6. <<line>> \in Seq(TraceLines) /\ Len(<<line>>) = 1
  BY <1>4
<1>7. Len(<<line>>) <= 5
  BY ONLY <1>6
<1> QED BY <1>3, <1>5, <1>6, <1>7

LEMMA ThreadTraces ==
  ASSUME TraceInv, NEW t \in Threads, TracedThreadStep(t)
  PROVE  TraceInv'
<1>0. ProgramInv /\ KnobsOK /\ t \in Parties /\ UNCHANGED knobs
  BY Constants DEF TraceInv, TracedThreadStep, Traces
<1>1. ASSUME Traces(Register(t), Event("tr", IF register_threads THEN t ELSE UserId(t)))
      PROVE  TraceInv'
  <2>1. Register(t) /\ ProgramInv' /\ UNCHANGED cas
    BY <1>0, <1>1, ProgramStep DEF Traces, ThreadStep
  <2>2. pc[t] = "begin" /\ UserId(t) = (IF register_threads THEN Main ELSE t + 1)
    BY <2>1 DEF Register, UserId
  <2> PICK line : line = [op |-> "tr", tid |-> TidOf(t)]
    OBVIOUS
  <2>3. Event("tr", IF register_threads THEN t ELSE UserId(t)) = <<line>>
    BY <2>2 DEF Event, TidOf
  <2>4. Follows(<<line>>)
    BY <1>0, <2>1, RegisterFollows
  <2>5. line \in TraceLines
    BY <1>0, TidsDiffer DEF TraceLines, ThreadLines
  <2>6. <<line>> \in Seq(TraceLines) /\ Len(<<line>>) <= 5
    BY <2>5
  <2> QED BY <1>1, <2>1, <2>3, <2>4, <2>6, Extends DEF Traces
<1>2. ASSUME Traces(Return(t), Event("tf", UserId(t)))
      PROVE  TraceInv'
  <2>1. Return(t) /\ ProgramInv' /\ UNCHANGED cas
    BY <1>0, <1>2, ProgramStep DEF Traces, ThreadStep
  <2>2. UserId(t) = TidOf(t)
    BY <1>0, <2>1, UserIds DEF Return
  <2> PICK line : line = [op |-> "tf", tid |-> TidOf(t)]
    OBVIOUS
  <2>3. Event("tf", UserId(t)) = <<line>>
    BY <2>2 DEF Event
  <2>4. Follows(<<line>>)
    BY <1>0, <2>1, ReturnFollows
  <2>5. line \in TraceLines
    BY <1>0, TidsDiffer DEF TraceLines, ThreadLines
  <2>6. <<line>> \in Seq(TraceLines) /\ Len(<<line>>) <= 5
    BY <2>5
  <2> QED BY <1>2, <2>1, <2>3, <2>4, <2>6, Extends DEF Traces
<1>3. ASSUME Traces(FetchAdd(t), Access(t, Counter, Counter)) PROVE TraceInv'
  <2>1. FetchAdd(t) /\ ProgramInv' /\ UNCHANGED cas
    BY <1>0, <1>3, ProgramStep DEF Traces, ThreadStep
  <2>2. Follows(Access(t, Counter, Counter))
    BY <1>0, <2>1, ThreadFollows
  <2>3. Access(t, Counter, Counter) \in Seq(TraceLines) /\ Len(Access(t, Counter, Counter)) <= 5
    BY <1>0, AccessLines
  <2> QED BY <1>3, <2>1, <2>2, <2>3, Extends DEF Traces
<1>4. ASSUME Traces(ReadCounter(t), Access(t, Counter, None)) PROVE TraceInv'
  <2>1. ReadCounter(t) /\ ProgramInv' /\ UNCHANGED cas
    BY <1>0, <1>4, ProgramStep DEF Traces, ThreadStep
  <2>2. Follows(Access(t, Counter, None))
    BY <1>0, <2>1, ReadFollows
  <2>3. Access(t, Counter, None) \in Seq(TraceLines) /\ Len(Access(t, Counter, None)) <= 5
    BY <1>0, AccessLines
  <2> QED BY <1>4, <2>1, <2>2, <2>3, Extends DEF Traces
<1>5. ASSUME Traces(CompareAndSwap(t), Access(t, Counter, CASWrite(t))) PROVE TraceInv'
  <2>1. CompareAndSwap(t) /\ ProgramInv' /\ UNCHANGED cas
    BY <1>0, <1>5, ProgramStep DEF Traces, ThreadStep
  <2>2. Follows(Access(t, Counter, CASWrite(t)))
    BY <1>0, <2>1, ThreadFollows
  <2>3. CASWrite(t) \in {Counter, None}
    BY DEF CASWrite
  <2>4. Access(t, Counter, CASWrite(t)) \in Seq(TraceLines) /\ Len(Access(t, Counter, CASWrite(t))) <= 5
    BY <1>0, <2>3, AccessLines
  <2> QED BY <1>5, <2>1, <2>2, <2>4, Extends DEF Traces
<1> QED BY <1>1, <1>2, <1>3, <1>4, <1>5 DEF TracedThreadStep

LEMMA MainTraces ==
  ASSUME TraceInv, TracedMainStep
  PROVE  TraceInv'
<1>0. ProgramInv /\ KnobsOK /\ Main \in Parties /\ UNCHANGED knobs
      /\ pc \in [Parties -> Places] /\ UserId(Main) \in Int
  BY Constants, UserIds DEF TraceInv, TracedMainStep, Traces, ProgramInv, IncInv, TypeInv
<1>1. ASSUME Traces(Malloc, Function("fc", "special_malloc", CounterSize)
                              \o Function("fr", "special_malloc", SpecialAddress)
                              \o Access(Main, None, Counter))
      PROVE  TraceInv'
  <2> PICK lines : lines = Function("fc", "special_malloc", CounterSize)
                             \o Function("fr", "special_malloc", SpecialAddress)
                             \o Access(Main, None, Counter)
    OBVIOUS
  <2>1. Malloc /\ ProgramInv' /\ UNCHANGED cas
    BY <1>0, <1>1, ProgramStep DEF Traces, MainStep
  <2>2. MainMoves("malloc", "create")
    BY <2>1 DEF Malloc, GoTo, counts, MainMoves
  <2>3. Follows(lines) /\ lines \in Seq(TraceLines) /\ Len(lines) <= 3
    BY <1>0, <2>2, MallocFollows
  <2>4. Len(lines) <= 5
    <3>1. Len(lines) \in Nat
      BY <2>3, LenProperties
    <3> QED BY <2>3, <3>1
  <2> QED BY <1>1, <2>1, <2>3, <2>4, Extends DEF Traces
<1>2. ASSUME NEW t \in Threads, Traces(Create(t), <<>>) PROVE TraceInv'
  <2>1. Create(t) /\ ProgramInv' /\ UNCHANGED cas
    BY <1>0, <1>2, ProgramStep DEF Traces, MainStep
  <2>2. /\ pc' = [pc EXCEPT ![t] = "begin",
                            ![Main] = IF t = num_threads - 1 THEN "bar1" ELSE "create"]
        /\ pc[t] = "none" /\ pc[Main] = "create" /\ t # Main /\ t \in Parties
        /\ UNCHANGED <<cas, counter, count, even_count, fail_count>>
    BY <2>1, Constants DEF Create, counts
  <2>3. StillMatches
    BY <1>0, <2>2, Constants DEF StillMatches, Alive
  <2>4. Follows(<<>>)
    BY <1>0, <2>3, QuietNone, QuietFollows
  <2>5. <<>> \in Seq(TraceLines) /\ Len(<<>>) <= 5
    BY EmptySeq
  <2> QED BY <1>2, <2>1, <2>4, <2>5, Extends DEF Traces
<1>3. ASSUME Traces(StartRoi, Event("start_roi", UserId(Main))) PROVE TraceInv'
  <2>1. StartRoi /\ ProgramInv' /\ UNCHANGED cas
    BY <1>0, <1>3, ProgramStep DEF Traces, MainStep
  <2>2. StillMatches
    BY <1>0, <2>1, Constants DEF StartRoi, GoTo, counts, StillMatches, Alive
  <2>3. Quiet(Event("start_roi", UserId(Main))) /\ Event("start_roi", UserId(Main)) \in Seq(TraceLines)
        /\ Len(Event("start_roi", UserId(Main))) <= 5
    BY <1>0, EventIsLine
  <2>4. Follows(Event("start_roi", UserId(Main)))
    BY <1>0, <2>2, <2>3, QuietFollows
  <2> QED BY <1>3, <2>1, <2>3, <2>4, Extends DEF Traces
<1>4. ASSUME Traces(EndRoi, Event("end_roi", UserId(Main))) PROVE TraceInv'
  <2>1. EndRoi /\ ProgramInv' /\ UNCHANGED cas
    BY <1>0, <1>4, ProgramStep DEF Traces, MainStep
  <2>2. StillMatches
    BY <1>0, <2>1, Constants DEF EndRoi, GoTo, counts, StillMatches, Alive
  <2>3. Quiet(Event("end_roi", UserId(Main))) /\ Event("end_roi", UserId(Main)) \in Seq(TraceLines)
        /\ Len(Event("end_roi", UserId(Main))) <= 5
    BY <1>0, EventIsLine
  <2>4. Follows(Event("end_roi", UserId(Main)))
    BY <1>0, <2>2, <2>3, QuietFollows
  <2> QED BY <1>4, <2>1, <2>3, <2>4, Extends DEF Traces
<1>5. ASSUME Traces(Join, <<>>) PROVE TraceInv'
  <2>1. Join /\ ProgramInv' /\ UNCHANGED cas
    BY <1>0, <1>5, ProgramStep DEF Traces, MainStep
  <2>2. StillMatches
    BY <1>0, <2>1, Constants DEF Join, GoTo, counts, StillMatches, Alive
  <2>3. Follows(<<>>)
    BY <1>0, <2>2, QuietNone, QuietFollows
  <2>4. <<>> \in Seq(TraceLines) /\ Len(<<>>) <= 5
    BY EmptySeq
  <2> QED BY <1>5, <2>1, <2>3, <2>4, Extends DEF Traces
<1>6. ASSUME Traces(Check, Access(Main, Counter, None)) PROVE TraceInv'
  <2>1. Check /\ ProgramInv' /\ UNCHANGED cas
    BY <1>0, <1>6, ProgramStep DEF Traces, MainStep
  <2>2. PICK next \in {"free", "failed"} :
          next = IF counter = stop_count + num_threads THEN "free" ELSE "failed"
    OBVIOUS
  <2>3. MainMoves("check", next)
    BY <2>1, <2>2 DEF Check, GoTo, counts, MainMoves
  <2>4. Follows(Access(Main, Counter, None))
    BY <1>0, <2>3, CheckFollows
  <2>5. Access(Main, Counter, None) \in Seq(TraceLines) /\ Len(Access(Main, Counter, None)) <= 5
    BY <1>0, AccessLines
  <2> QED BY <1>6, <2>1, <2>4, <2>5, Extends DEF Traces
<1>7. ASSUME NEW more \in {<<>>, Access(Main, SecondWord, None)},
             Traces(Free, Function("fc", "special_free", SpecialAddress)
                            \o Access(Main, BlockSize, None) \o more
                            \o Function("fr", "special_free", 0)
                            \o MainEvent("tf"))
      PROVE  TraceInv'
  <2> PICK lines : lines = Function("fc", "special_free", SpecialAddress)
                             \o Access(Main, BlockSize, None) \o more
                             \o Function("fr", "special_free", 0)
                             \o MainEvent("tf")
    OBVIOUS
  <2>1. Free /\ ProgramInv' /\ UNCHANGED cas
    BY <1>0, <1>7, ProgramStep DEF Traces, MainStep
  <2>2. MainMoves("free", "done")
    BY <2>1 DEF Free, GoTo, counts, MainMoves
  <2>3. Follows(lines) /\ lines \in Seq(TraceLines) /\ Len(lines) <= 5
    BY <1>0, <2>2, FreeFollows
  <2> QED BY <1>7, <2>1, <2>3, Extends DEF Traces
<1>8. ASSUME \E t \in Threads : Traces(Create(t), <<>>) PROVE TraceInv'
  BY <1>2, <1>8
<1> QED BY <1>1, <1>3, <1>4, <1>5, <1>6, <1>7, <1>8 DEF TracedMainStep

LEMMA BarrierTraces ==
  ASSUME TraceInv, NEW p \in Parties, TracedBarrierStep(p)
  PROVE  TraceInv'
<1>0. ProgramInv /\ KnobsOK /\ UNCHANGED knobs /\ Main \in Parties /\ Threads \subseteq Parties
      /\ pc \in [Parties -> Places]
  BY Constants DEF TraceInv, TracedBarrierStep, Traces, ProgramInv, IncInv, TypeInv
<1>1. PICK b \in 1 .. 4 : \/ Traces(Arrive(p, b), Access(p, BarrierWord, BarrierWord))
                          \/ Traces(Pass(p, b), <<>>)
  BY DEF TracedBarrierStep
<1>2. CASE Traces(Arrive(p, b), Access(p, BarrierWord, BarrierWord))
  <2>1. Arrive(p, b) /\ ProgramInv' /\ UNCHANGED cas
    BY <1>0, <1>2, ProgramStep DEF Traces, BarrierStep
  <2>2. StillMatches
    BY <2>1 DEF Arrive, counts, StillMatches, Alive
  <2>3. Quiet(Access(p, BarrierWord, BarrierWord))
    BY <1>0, QuietAccess
  <2>4. /\ Access(p, BarrierWord, BarrierWord) \in Seq(TraceLines)
        /\ Len(Access(p, BarrierWord, BarrierWord)) <= 5
    BY <1>0, AccessLines
  <2>5. Follows(Access(p, BarrierWord, BarrierWord))
    BY <1>0, <2>2, <2>3, QuietFollows
  <2> QED BY <1>2, <2>1, <2>4, <2>5, Extends DEF Traces
<1>3. CASE Traces(Pass(p, b), <<>>)
  <2>1. Pass(p, b) /\ ProgramInv' /\ UNCHANGED cas
    BY <1>0, <1>3, ProgramStep DEF Traces, BarrierStep
  <2>2. /\ Gate[b] \in {"bar1", "bar2", "bar3", "bar4"}
        /\ AfterGate(p, b) \in {"start_roi", "bar3", "end_roi", "join", "bar2", "loop", "bar4",
                                "return"}
    BY DEF Gate, AfterGate
  <2>3. /\ pc[p] \in {"bar1", "bar2", "bar3", "bar4"}
        /\ pc'[p] \in {"start_roi", "bar3", "end_roi", "join", "bar2", "loop", "bar4", "return"}
        /\ \A q \in Parties : q # p => pc'[q] = pc[q]
        /\ UNCHANGED <<cas, counter, count, even_count, fail_count>>
    BY <1>0, <2>1, <2>2 DEF Pass, GoTo, counts
  <2>4. StillMatches
    BY <1>0, <2>3 DEF StillMatches, Alive
  <2>5. Follows(<<>>)
    BY <1>0, <2>4, QuietNone, QuietFollows
  <2>6. <<>> \in Seq(TraceLines) /\ Len(<<>>) <= 5
    BY EmptySeq
  <2> QED BY <1>3, <2>1, <2>5, <2>6, Extends DEF Traces
<1> QED BY <1>1, <1>2, <1>3

LEMMA ContextTraces ==
  ASSUME TraceInv, NEW t \in Threads, ContextChange(t)
  PROVE  TraceInv'
<1>0. ProgramInv /\ KnobsOK /\ UNCHANGED knobs /\ UNCHANGED simVars /\ UNCHANGED programVars
      /\ t \in Parties /\ Len(trace) < MaxUnread /\ trace' = trace \o Event("ctxt_change", UserId(t))
  BY Constants DEF TraceInv, ContextChange
<1>1. UNCHANGED <<cas, pc, counter, count, even_count, fail_count>> /\ ProgramInv'
  BY <1>0, ProgramNext DEF programVars, counts
<1>2. StillMatches
  BY <1>1 DEF StillMatches, Alive
<1>3. Quiet(Event("ctxt_change", UserId(t))) /\ Event("ctxt_change", UserId(t)) \in Seq(TraceLines)
      /\ Len(Event("ctxt_change", UserId(t))) <= 5
  BY <1>0, EventIsLine
<1>4. Follows(Event("ctxt_change", UserId(t)))
  BY <1>0, <1>2, <1>3, QuietFollows
<1> QED BY <1>0, <1>1, <1>3, <1>4, Extends

\* The simulator reads a line.
LEMMA ReadLineKeeps ==
  ASSUME TraceInv, ReadLine
  PROVE  TraceInv'
<1>1. /\ trace \in Seq(TraceLines) /\ trace # <<>> /\ Len(trace) < MaxUnread + 5
      /\ SimStep(Head(trace), cas) /\ trace' = Tail(trace)
      /\ UNCHANGED <<programVars, knobs>>
      /\ SimState \in States /\ {read, written} \subseteq Operands
  BY DEF TraceInv, ReadLine
<1>2. ProgramInv' /\ KnobsOK' /\ UNCHANGED <<cas, pc, counter, count, even_count, fail_count>>
      /\ cas \in BOOLEAN
  BY <1>1, ProgramNext DEF TraceInv, programVars, counts, knobs, KnobsOK, ProgramInv, IncInv, TypeInv
<1>3. trace' \in Seq(TraceLines) /\ Len(trace') < MaxUnread + 5
  <2>1. Len(trace) \in Nat /\ Len(Tail(trace)) = Len(trace) - 1 /\ Tail(trace) \in Seq(TraceLines)
    BY <1>1
  <2> QED BY <1>1, <2>1, TraceAssumption
<1>4. PICK u \in States : Path(cas, SimState, trace, u) /\ Matches(u)
  BY DEF TraceInv
<1>5. PICK v \in States : Simulates(cas, SimState, Head(trace), v) /\ Path(cas, v, Tail(trace), u)
  BY <1>1, <1>4, PathHead
<1>6. SimState' = v /\ stopped' \in {"no", "TypeError"}
  BY <1>1, <1>2, <1>5, SimReads
<1>7. Path(cas', SimState', trace', u)
  BY <1>1, <1>2, <1>5, <1>6
<1>8. StillMatches
  BY <1>2 DEF StillMatches, Alive
<1>9. Matches(u)'
  BY <1>1, <1>4, <1>8, MatchesStays
<1>10. {read', written'} \subseteq Operands
  <2> PICK line : line = Head(trace)
    OBVIOUS
  <2>1. line \in TraceLines
    BY <1>5 DEF Simulates
  <2>2. CASE line.op = "m"
    <3>1. line.r \in Operands /\ line.w \in Operands
      BY <2>1, <2>2, LineKinds, MemoryLineIs DEF Operands
    <3>2. MemoryAccess(line, cas)
      BY <1>1, <2>2 DEF SimStep, StartThread, FinishThread, FunctionCall, FunctionReturn, ChangeRoi, CtxtChange
    <3> QED BY <1>1, <3>1, <3>2 DEF MemoryAccess
  <2>3. CASE line.op # "m"
    BY <1>1, <2>3 DEF SimStep, MemoryAccess, StartThread, FinishThread, FunctionCall, FunctionReturn,
                      ChangeRoi, CtxtChange, simVars
  <2> QED BY <2>2, <2>3
<1> QED BY <1>2, <1>3, <1>6, <1>7, <1>9, <1>10 DEF TraceInv

LEMMA TraceInvInit == TraceInit => TraceInv
<1> SUFFICES ASSUME TraceInit PROVE TraceInv
  OBVIOUS
<1>1. ProgramInv /\ KnobsOK /\ Init
  BY ProgramInit DEF TraceInit, KnobsOK
<1>2. /\ SimState \in States /\ {read, written} \subseteq Operands /\ stopped = "no"
      /\ special_address = 0 /\ special_size = 0 /\ special_value = 0 /\ active_threads = {}
      /\ increments = [x \in Tids |-> 0] /\ even_increments = [x \in Tids |-> 0]
      /\ reads = [x \in Tids |-> 0]
  BY DEF TraceInit, SimInit, SimState, States, Addresses, Sizes, Operands
<1>3. /\ pc[Main] = "malloc" /\ \A t \in Threads : pc[t] = "none"
      /\ counter = 0 /\ count = [t \in Threads |-> 0] /\ even_count = [t \in Threads |-> 0]
      /\ fail_count = [t \in Threads |-> 0]
  BY <1>1, Constants DEF Init
<1>4. Total(fail_count) = 0 /\ Total(reads) = 0
  <2>1. IsFiniteSet(Threads) /\ 0 \in Threads /\ IsFiniteSet(Tids) /\ 0 \in Tids
    BY Constants, TraceAssumption DEF Threads
  <2> QED BY <1>2, <1>3, <2>1, TotalOfZeros
<1>5. Cardinality(InCas) = 0
  <2>1. InCas = {}
    BY <1>3 DEF InCas
  <2> QED BY <2>1, FS_EmptySet
<1>6. {t \in Threads : Alive(t)} = {}
  BY <1>3 DEF Alive
<1> DEFINE ids == IF register_threads THEN {} ELSE {0}
<1>7. ids \in SUBSET Tids
  BY TidsDiffer, <1>1
<1> DEFINE v0 == [SimState EXCEPT !.active = ids]
<1>8. v0 \in States
  BY <1>2, <1>7 DEF States
<1> PICK v \in States : v = v0
  BY <1>8
<1>9. /\ v.address = 0 /\ v.size = 0 /\ v.value = 0 /\ v.active = ids
      /\ v.increments = increments /\ v.evens = even_increments /\ v.reads = reads
  BY <1>2 DEF SimState
<1>10. Matches(v)
  <2>1. AddressMatches(v)
    BY <1>3, <1>9 DEF AddressMatches
  <2>2. v.active = ActiveIds
    BY <1>3, <1>6, <1>9 DEF ActiveIds
  <2>3. CountsMatch(v)
    <3>1. \A t \in Threads : TidOf(t) \in Tids
      BY <1>1, TidsDiffer
    <3> QED BY <1>2, <1>3, <1>4, <1>9, <3>1 DEF CountsMatch
  <2>4. ReadsOfThreads = 0 /\ MainReads = 0
    BY <1>3, <1>4, <1>5 DEF ReadsOfThreads, MainReads
  <2>5. ReadsMatch(v)
    BY <1>4, <1>9, <2>4 DEF ReadsMatch
  <2> QED BY <2>1, <2>2, <2>3, <2>5 DEF Matches
<1>11. /\ trace \in Seq(TraceLines) /\ Len(trace) < MaxUnread + 5
       /\ Path(cas, SimState, trace, v)
  <2>1. CASE register_threads
    <3>1. trace = <<>>
      BY <2>1 DEF TraceInit, MainEvent
    <3>2. v = SimState
      BY <1>2, <2>1 DEF SimState
    <3>3. trace \in Seq(TraceLines) /\ Len(trace) = 0
      BY <3>1, EmptySeq
    <3>4. Path(cas, SimState, <<>>, SimState)
      BY <1>2, PathEmpty
    <3>5. Len(trace) < MaxUnread + 5
      BY <3>3, TraceAssumption
    <3> QED BY <3>1, <3>2, <3>3, <3>4, <3>5
  <2>2. CASE ~register_threads
    <3>1. UserId(Main) = 0 /\ 0 \in Tids
      BY <1>1, <2>2, UserIds, TidsDiffer
    <3> PICK line : line = [op |-> "tr", tid |-> 0]
      OBVIOUS
    <3>2. trace = <<line>>
      BY <2>2, <3>1 DEF TraceInit, MainEvent, Event
    <3>3. line \in TraceLines /\ line.op = "tr" /\ line.tid = 0
      BY <3>1 DEF TraceLines, ThreadLines
    <3>4. SimState.active = {} /\ v = [SimState EXCEPT !.active = @ \cup {0}]
      BY <1>2, <2>2 DEF SimState
    <3>5. Simulates(cas, SimState, line, v)
      BY <3>3, <3>4 DEF Simulates, Notes
    <3>6. Path(cas, SimState, <<line>>, v)
      BY <1>2, <3>5, PathOne
    <3>7. <<line>> \in Seq(TraceLines) /\ Len(<<line>>) = 1
      BY <3>3
    <3> QED BY <3>2, <3>6, <3>7, TraceAssumption
  <2> QED BY <1>1, <2>1, <2>2 DEF KnobsOK
<1> QED BY <1>1, <1>2, <1>10, <1>11 DEF TraceInv

LEMMA TraceInvNext == TraceInv /\ [TraceNext]_vars => TraceInv'
<1> SUFFICES ASSUME TraceInv, [TraceNext]_vars PROVE TraceInv'
  OBVIOUS
<1>1. CASE UNCHANGED vars
  <2> USE <1>1 DEF vars, programVars, simVars, counts, knobs
  <2>1. UNCHANGED <<programVars, knobs, cas, pc, counter, count, even_count, fail_count, trace,
                    read, written, stopped>> /\ SimState' = SimState
    BY DEF SimState
  <2>2. ProgramInv' /\ KnobsOK'
    BY <2>1, ProgramNext DEF TraceInv, KnobsOK
  <2>3. StillMatches
    BY <2>1 DEF StillMatches, Alive
  <2>4. PICK u \in States : Path(cas, SimState, trace, u) /\ Matches(u)
    BY DEF TraceInv
  <2> HIDE <1>1 DEF vars, programVars, simVars, counts, knobs
  <2>5. Path(cas', SimState', trace', u) /\ Matches(u)'
    BY <2>1, <2>3, <2>4, MatchesStays
  <2> QED BY <2>1, <2>2, <2>5 DEF TraceInv
<1>2. CASE TracedMainStep
  BY <1>2, MainTraces
<1>3. ASSUME NEW t \in Threads, TracedThreadStep(t) \/ ContextChange(t) PROVE TraceInv'
  BY <1>3, ThreadTraces, ContextTraces
<1>4. ASSUME NEW p \in Parties, TracedBarrierStep(p) PROVE TraceInv'
  BY <1>4, BarrierTraces
<1>5. CASE ReadLine
  BY <1>5, ReadLineKeeps
<1>6. CASE Over
  BY <1>1, <1>6 DEF Over
<1> QED BY <1>1, <1>2, <1>3, <1>4, <1>5, <1>6 DEF TraceNext

\* Whenever the invariant holds, so do the properties that the run of IncTrace
\* checks.
LEMMA AllRead ==
  ASSUME TraceInv, trace = <<>>
  PROVE  Matches(SimState)
<1>1. PICK u \in States : Path(cas, SimState, <<>>, u) /\ Matches(u)
  BY DEF TraceInv
<1>2. SimState = u
  BY <1>1, PathNone
<1> QED BY <1>1, <1>2

LEMMA TraceInvTypes == TraceInv => TypeOK
<1> SUFFICES ASSUME TraceInv PROVE TypeOK
  OBVIOUS
<1>1. ProgramTypeOK
  BY InvTypes DEF TraceInv, ProgramInv
<1> QED BY <1>1 DEF TraceInv, SimState, States, Addresses, Sizes, Operands, TypeOK

LEMMA InvMatches == TraceInv => SimMatchesProgram
<1> SUFFICES ASSUME TraceInv, trace = <<>>
             PROVE  LET extra(t) == IF log_cas_fails THEN fail_count[t] ELSE 0
                    IN /\ special_value = counter + (IF log_cas_fails THEN Total(fail_count) ELSE 0)
                       /\ \A t \in Threads :
                            /\ increments[TidOf(t)] = count[t] + extra(t)
                            /\ ~cas => even_increments[TidOf(t)] = even_count[t]
  BY DEF SimMatchesProgram
<1>1. CountsMatch(SimState)
  BY AllRead DEF Matches
<1> QED BY <1>1 DEF CountsMatch, SimState

LEMMA InvFails == TraceInv => FailsMatch
<1> SUFFICES ASSUME TraceInv, register_threads \/ require_roi, cas, ~log_cas_fails,
                    pc[Main] = "done", trace = <<>>
             PROVE  SimFails = Total(fail_count)
  BY DEF FailsMatch
<1>1. CountsMatch(SimState) /\ ReadsMatch(SimState)
  BY AllRead DEF Matches
<1>2. special_value = counter /\ counter \in Nat
  BY <1>1 DEF CountsMatch, SimState, TraceInv, ProgramInv, IncInv, TypeInv
<1>3. InCas = {}
  BY DEF InCas, TraceInv, ProgramInv, IncInv, JoinedInv
<1>4. Cardinality(InCas) = 0
  BY <1>3, FS_EmptySet
<1>5. Total(fail_count) \in Nat
  BY Failures DEF TraceInv
<1>6. ReadsOfThreads = 2 * counter + Total(fail_count) /\ MainReads = 2
  BY <1>2, <1>4, <1>5 DEF ReadsOfThreads, MainReads
<1>7. Total(SimState.reads) = Total(reads) /\ Total(reads) \in Nat
  BY TotalNat DEF SimState, TraceInv
<1> QED BY <1>1, <1>2, <1>5, <1>6, <1>7 DEF ReadsMatch, SimFails

-----------------------------------------------------------------------------
\* The invariant is one of every run of a test program under the pintool.
THEOREM TraceInvariant == TraceSpec => []TraceInv
<1>1. TraceInit => TraceInv
  BY TraceInvInit
<1>2. TraceInv /\ [TraceNext]_vars => TraceInv'
  BY TraceInvNext
<1> QED BY <1>1, <1>2, PTL DEF TraceSpec

\* Types, of the program and of the simulator; what is on the way between
\* them is bounded.
THEOREM TraceTypeCorrect == TraceSpec => []TypeOK
BY TraceInvariant, TraceInvTypes, PTL

\* For any number of threads, any total, both programs, all knobs and any
\* delay: whenever the simulator has read all there is, its value and its
\* increments per thread are the program's ("If the trace simulation matches
\* the actual program"), with one increment more for each failed
\* compare-and-swap if the pintool logs these as writes.
THEOREM SimCountsProgram == TraceSpec => []SimMatchesProgram
BY TraceInvariant, InvMatches, PTL

\* What inc_sim_cas prints as failures is the program's own number of failed
\* compare-and-swaps, if main's accesses are not traced (-r or -i).
THEOREM FailsAgree == TraceSpec => []FailsMatch
BY TraceInvariant, InvFails, PTL

\* No assert of the simulators fails on a trace of their programs: not on the
\* memory they look at, not on threads that begin or end, not on the functions.
THEOREM SimNeverFails == TraceSpec => []SimAccepts
<1>1. TraceInv => SimAccepts
  BY DEF TraceInv, SimAccepts
<1> QED BY <1>1, TraceInvariant, PTL
=============================================================================

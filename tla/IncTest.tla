------------------------------ MODULE IncTest ------------------------------
(***************************************************************************)
(* The test programs inc.cpp and inc_cas.cpp: threads that increment a     *)
(* shared counter until it has reached a limit, by an atomic addition or   *)
(* by a loop around compare-and-swap.  Four barriers keep the increments   *)
(* inside the region of interest that main opens and closes.               *)
(*                                                                         *)
(* A step ends where another thread can see a difference: at an access to  *)
(* the counter, a barrier, the creation or the end of a thread.            *)
(***************************************************************************)
EXTENDS Integers, FiniteSets

CONSTANTS
  num_threads,
  InsertTotal     \* the second argument, to_insert_total before main reduces it

\* The asserts of main on its arguments.
ASSUME ArgumentsAssumption ==
  /\ num_threads \in Nat /\ num_threads > 0
  /\ InsertTotal \in Nat /\ InsertTotal > num_threads

Threads == 0 .. num_threads - 1
Main == -1
Parties == Threads \cup {Main}

\* "threads will each increment once beyond to_insert_total"
stop_count == InsertTotal - num_threads

VARIABLES
  cas,            \* which program: inc_cas, or inc
  pc,
  arrived,        \* for each barrier, who waits there or has passed it
  counter,
  orig,           \* inc_with_CAS: what the next compare-and-swap expects
  old_val,
  count, even_count, fail_count

counts == <<old_val, count, even_count>>
programVars == <<cas, pc, arrived, counter, orig, counts, fail_count>>

Init ==
  /\ cas \in BOOLEAN
  /\ pc = [p \in Parties |-> IF p = Main THEN "malloc" ELSE "none"]
  /\ arrived = [b \in 1 .. 4 |-> {}]
  /\ counter = 0
  /\ orig = [t \in Threads |-> 0]
  /\ old_val = [t \in Threads |-> 0]
  /\ count = [t \in Threads |-> 0]
  /\ even_count = [t \in Threads |-> 0]
  /\ fail_count = [t \in Threads |-> 0]

GoTo(p, place) == pc' = [pc EXCEPT ![p] = place]

(***************************************************************************)
(* Barriers                                                                *)
(***************************************************************************)
Gate == <<"bar1", "bar2", "bar3", "bar4">>

Arrive(p, b) ==
  /\ pc[p] = Gate[b]
  /\ p \notin arrived[b]
  /\ arrived' = [arrived EXCEPT ![b] = @ \cup {p}]
  /\ UNCHANGED <<cas, pc, counter, orig, counts, fail_count>>

\* Mutation of IsFull: the barriers are for the threads without main.
IsFullThreads(b) == Cardinality(arrived[b]) >= num_threads

\* Each barrier is for num_threads+1.
IsFull(b) == Cardinality(arrived[b]) >= num_threads + 1

\* Where a party goes on: the region begins between the first two barriers
\* and ends between the last two.
AfterGate(p, b) ==
  IF p = Main THEN <<"start_roi", "bar3", "end_roi", "join">>[b]
              ELSE <<"bar2", "loop", "bar4", "return">>[b]

Pass(p, b) ==
  /\ pc[p] = Gate[b]
  /\ p \in arrived[b] /\ IsFull(b)
  /\ GoTo(p, AfterGate(p, b))
  /\ UNCHANGED <<cas, arrived, counter, orig, counts, fail_count>>

(***************************************************************************)
(* thread_incs                                                             *)
(***************************************************************************)
\* register_thread
Register(t) ==
  /\ pc[t] = "begin"
  /\ GoTo(t, "bar1")
  /\ UNCHANGED <<cas, arrived, counter, orig, counts, fail_count>>

\* Mutation of Again: one more round.
AgainAtLimit(old) == old <= stop_count

\* The loop's condition
Again(old) == old < stop_count

\* The loop around an increment that found the counter at "old".
CountInc(t, old) ==
  /\ old_val' = [old_val EXCEPT ![t] = old]
  /\ even_count' = [even_count EXCEPT ![t] = IF old % 2 = 0 THEN @ + 1 ELSE @]
  /\ count' = [count EXCEPT ![t] = @ + 1]
  /\ GoTo(t, IF Again(old) THEN "loop" ELSE "bar3")

\* inc.cpp: __sync_fetch_and_add
FetchAdd(t) ==
  /\ pc[t] = "loop" /\ ~cas
  /\ counter' = counter + 1
  /\ CountInc(t, counter)
  /\ UNCHANGED <<cas, arrived, orig, fail_count>>

\* inc_with_CAS: the first value to expect is read by itself.
ReadCounter(t) ==
  /\ pc[t] = "loop" /\ cas
  /\ orig' = [orig EXCEPT ![t] = counter]
  /\ GoTo(t, "cas")
  /\ UNCHANGED <<cas, arrived, counter, counts, fail_count>>

\* Mutation of Swaps: the comparison is left out.
SwapsAlways(t) == TRUE

Swaps(t) == counter = orig[t]

\* __sync_val_compare_and_swap; a failed one tells what to expect next.
CompareAndSwap(t) ==
  /\ pc[t] = "cas"
  /\ \/ /\ Swaps(t)
        /\ counter' = orig[t] + 1
        /\ CountInc(t, orig[t])
        /\ UNCHANGED <<orig, fail_count>>
     \/ /\ ~Swaps(t)
        /\ orig' = [orig EXCEPT ![t] = counter]
        /\ fail_count' = [fail_count EXCEPT ![t] = @ + 1]
        /\ UNCHANGED <<pc, counter, counts>>
  /\ UNCHANGED <<cas, arrived>>

Return(t) ==
  /\ pc[t] = "return"
  /\ GoTo(t, "ended")
  /\ UNCHANGED <<cas, arrived, counter, orig, counts, fail_count>>

(***************************************************************************)
(* main                                                                    *)
(***************************************************************************)
\* special_malloc, and the counter is set to 0
Malloc ==
  /\ pc[Main] = "malloc"
  /\ GoTo(Main, "create")
  /\ UNCHANGED <<cas, arrived, counter, orig, counts, fail_count>>

\* pthread_create, in order of thread ids
Create(t) ==
  /\ pc[Main] = "create"
  /\ pc[t] = "none"
  /\ \A u \in Threads : u < t => pc[u] # "none"
  /\ pc' = [pc EXCEPT ![t] = "begin",
                      ![Main] = IF t = num_threads - 1 THEN "bar1" ELSE "create"]
  /\ UNCHANGED <<cas, arrived, counter, orig, counts, fail_count>>

StartRoi ==
  /\ pc[Main] = "start_roi"
  /\ GoTo(Main, "bar2")
  /\ UNCHANGED <<cas, arrived, counter, orig, counts, fail_count>>

EndRoi ==
  /\ pc[Main] = "end_roi"
  /\ GoTo(Main, "bar4")
  /\ UNCHANGED <<cas, arrived, counter, orig, counts, fail_count>>

\* pthread_join, all threads
Join ==
  /\ pc[Main] = "join"
  /\ \A t \in Threads : pc[t] = "ended"
  /\ GoTo(Main, "check")
  /\ UNCHANGED <<cas, arrived, counter, orig, counts, fail_count>>

\* assert(counter->counter == to_insert_total+num_threads)
Check ==
  /\ pc[Main] = "check"
  /\ GoTo(Main, IF counter = stop_count + num_threads THEN "free" ELSE "failed")
  /\ UNCHANGED <<cas, arrived, counter, orig, counts, fail_count>>

\* special_free, and main returns
Free ==
  /\ pc[Main] = "free"
  /\ GoTo(Main, "done")
  /\ UNCHANGED <<cas, arrived, counter, orig, counts, fail_count>>

ThreadStep(t) ==
  \/ Register(t)
  \/ FetchAdd(t)
  \/ ReadCounter(t)
  \/ CompareAndSwap(t)
  \/ Return(t)

MainStep ==
  \/ Malloc
  \/ \E t \in Threads : Create(t)
  \/ StartRoi
  \/ EndRoi
  \/ Join
  \/ Check
  \/ Free

BarrierStep(p) == \E b \in 1 .. 4 : Arrive(p, b) \/ Pass(p, b)

Next ==
  \/ MainStep
  \/ \E t \in Threads : ThreadStep(t)
  \/ \E p \in Parties : BarrierStep(p)

Spec == Init /\ [][Next]_programVars

(***************************************************************************)
(* Properties                                                              *)
(***************************************************************************)
Places == {"malloc", "create", "none", "begin", "loop", "cas", "return", "ended", "start_roi",
           "end_roi", "join", "check", "free", "done", "failed"} \cup {Gate[b] : b \in 1 .. 4}

\* The type invariant; the counter never passes the total.
ProgramTypeOK ==
  /\ cas \in BOOLEAN
  /\ pc \in [Parties -> Places]
  /\ arrived \in [1 .. 4 -> SUBSET Parties]
  /\ counter \in 0 .. InsertTotal
  /\ orig \in [Threads -> Nat] /\ old_val \in [Threads -> Nat]
  /\ count \in [Threads -> Nat] /\ even_count \in [Threads -> Nat]
  /\ fail_count \in [Threads -> Nat]

\* assert(counter->counter == to_insert_total+num_threads): whatever the
\* races for the last increments, the threads together make exactly as many
\* as the program was asked for.
InsertsAll == pc[Main] # "failed"

Shared == INSTANCE FetchAndAdd WITH Limit <- stop_count, value <- counter, got <- old_val

\* Both programs increment atomically: inc_with_CAS returns the value before
\* its own increment, whatever other threads do between its read and its
\* compare-and-swap, and no thread goes on once it has seen the limit.
IsFetchAndAdd == Shared!Spec
=============================================================================

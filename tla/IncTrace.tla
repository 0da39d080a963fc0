------------------------------ MODULE IncTrace ------------------------------
(***************************************************************************)
(* The test of the tool chain: a test program under the pintool, and the   *)
(* simulator that reads its trace (README, "Test - Atomic Increment").     *)
(*                                                                         *)
(* Between the two are the pintool's locks, clocks and buffers and the     *)
(* merge utility, which Tracer, Merge and TracePipeline model: here a step *)
(* of the program puts its lines at the end of the trace, so accesses to   *)
(* the counter are in the trace in the order in which they are performed   *)
(* (AtomicOrder).  What is left of the pintool is which accesses it traces *)
(* and what their lines say.                                               *)
(***************************************************************************)
EXTENDS IncTest, IncSim, Sequences, FiniteSetsExt

CONSTANTS
  MaxUnread,         \* bound: lines on the way from the program to the simulator
  ContextChanges     \* bound: context changes

\* The bounds, and the ids threads have in the trace: their own or Pin's.
ASSUME TraceAssumption ==
  /\ MaxUnread \in Nat /\ ContextChanges \in Nat
  /\ IsFiniteSet(Tids) /\ 0 .. num_threads \subseteq Tids

VARIABLES
  register_threads, require_roi, log_cas_fails,   \* knobs -r, -i and -c
  trace,                                          \* the lines not read yet
  context_changes                                 \* how many there have been

knobs == <<register_threads, require_roi, log_cas_fails>>
vars == <<programVars, simVars, knobs, trace, context_changes>>

(***************************************************************************)
(* What the pintool traces                                                 *)
(***************************************************************************)
\* A thread's id in the trace: its own once it has registered, or the one Pin
\* gives it, where main is the first thread.
UserId(p) ==
  IF register_threads THEN (IF pc[p] \in {"none", "begin"} THEN Main ELSE p) ELSE p + 1

in_roi == pc[Main] \in {"bar2", "bar3", "end_roi"}

\* memory_access_header_a
Traced(p) == (in_roi \/ ~require_roi) /\ UserId(p) >= 0

Operand(address, size) == [address |-> address, size |-> size]

\* special_malloc'ed memory, its first word, its second, which the C library may
\* use when the block is free, the size of the block, which it keeps in front of
\* it, and a word of another block.
SpecialAddress == 32
CounterSize == 64
Counter == Operand(SpecialAddress, 8)
SecondWord == Operand(SpecialAddress + 8, 8)
BlockSize == Operand(SpecialAddress - 8, 8)
BarrierWord == Operand(SpecialAddress + 80, 4)

Access(p, r, w) ==
  IF Traced(p) THEN <<[op |-> "m", tid |-> UserId(p), r |-> r, w |-> w]>> ELSE <<>>

Event(what, tid) == <<[op |-> what, tid |-> tid]>>
Function(what, fn, value) == <<[op |-> what, tid |-> UserId(Main), name |-> fn, value |-> value]>>

\* Thread lines of main are there only if threads do not register.
MainEvent(what) == IF register_threads THEN <<>> ELSE Event(what, UserId(Main))

\* memory_access_CAS_footer_a: what a compare-and-swap writes, for its line
CASWrite(t) == IF Swaps(t) \/ log_cas_fails THEN Counter ELSE None

(***************************************************************************)
(* The program under the pintool                                           *)
(***************************************************************************)
Traces(step, lines) ==
  /\ Len(trace) < MaxUnread
  /\ step
  /\ trace' = trace \o lines
  /\ UNCHANGED <<simVars, knobs, context_changes>>

TracedThreadStep(t) ==
  \/ Traces(Register(t), Event("tr", IF register_threads THEN t ELSE UserId(t)))
  \/ Traces(FetchAdd(t), Access(t, Counter, Counter))
  \/ Traces(ReadCounter(t), Access(t, Counter, None))
  \/ Traces(CompareAndSwap(t), Access(t, Counter, CASWrite(t)))
  \/ Traces(Return(t), Event("tf", UserId(t)))

\* main accesses the counter itself, to set it and to check it, and free reads
\* the size of its block, perhaps more.
TracedMainStep ==
  \/ Traces(Malloc, Function("fc", "special_malloc", CounterSize)
                      \o Function("fr", "special_malloc", SpecialAddress)
                      \o Access(Main, None, Counter))
  \/ \E t \in Threads : Traces(Create(t), <<>>)
  \/ Traces(StartRoi, Event("start_roi", UserId(Main)))
  \/ Traces(EndRoi, Event("end_roi", UserId(Main)))
  \/ Traces(Join, <<>>)
  \/ Traces(Check, Access(Main, Counter, None))
  \/ \E more \in {<<>>, Access(Main, SecondWord, None)} :
       Traces(Free, Function("fc", "special_free", SpecialAddress)
                    \o Access(Main, BlockSize, None) \o more
                    \o Function("fr", "special_free", 0)
                    \o MainEvent("tf"))

\* Barriers are updated atomically.
TracedBarrierStep(p) ==
  \E b \in 1 .. 4 :
    \/ Traces(Arrive(p, b), Access(p, BarrierWord, BarrierWord))
    \/ Traces(Pass(p, b), <<>>)

\* The operating system may interrupt a thread at any time.
ContextChange(t) ==
  /\ pc[t] = "loop"
  /\ context_changes < ContextChanges
  /\ Len(trace) < MaxUnread
  /\ trace' = trace \o Event("ctxt_change", UserId(t))
  /\ context_changes' = context_changes + 1
  /\ UNCHANGED <<programVars, simVars, knobs>>

ReadLine ==
  /\ trace # <<>>
  /\ SimStep(Head(trace), cas)
  /\ trace' = Tail(trace)
  /\ UNCHANGED <<programVars, knobs, context_changes>>

TraceInit ==
  /\ Init /\ SimInit
  /\ register_threads \in BOOLEAN /\ require_roi \in BOOLEAN /\ log_cas_fails \in BOOLEAN
  /\ trace = MainEvent("tr")
  /\ context_changes = 0

\* The run is over when all is read, or the simulator has stopped.
Over ==
  /\ (pc[Main] = "done" /\ trace = <<>>) \/ stopped # "no"
  /\ UNCHANGED vars

TraceNext ==
  \/ TracedMainStep
  \/ \E t \in Threads : TracedThreadStep(t) \/ ContextChange(t)
  \/ \E p \in Parties : TracedBarrierStep(p)
  \/ ReadLine
  \/ Over

TraceSpec == TraceInit /\ [][TraceNext]_vars

\* The operating system runs main, every thread and the simulator.
FairTraceSpec ==
  /\ TraceSpec
  /\ WF_vars(TracedMainStep)
  /\ \A t \in Threads : WF_vars(TracedThreadStep(t))
  /\ \A p \in Parties : WF_vars(TracedBarrierStep(p))
  /\ WF_vars(ReadLine)

(***************************************************************************)
(* Properties                                                              *)
(***************************************************************************)
\* The type invariant of program and simulator.
TypeOK ==
  /\ ProgramTypeOK
  /\ special_address \in {0, SpecialAddress} /\ special_size \in {0, CounterSize}
  /\ special_value \in Nat
  /\ {read, written} \subseteq {None, Counter, SecondWord, BlockSize, BarrierWord}
  /\ active_threads \subseteq Tids
  /\ increments \in [Tids -> Nat] /\ even_increments \in [Tids -> Nat] /\ reads \in [Tids -> Nat]
  /\ stopped \in {"no", "assert", "TypeError"}
  /\ Len(trace) < MaxUnread + 5

Total(f) == MapThenSumSet(LAMBDA x : f[x], DOMAIN f)

TidOf(t) == IF register_threads THEN t ELSE t + 1

\* "If the trace simulation matches the actual program": whenever the
\* simulator has read all there is, it has counted what the program has.
\* With -c each failed compare-and-swap is one write more ("that it breaks
\* when you do log CAS fails as writes").
SimMatchesProgram ==
  trace = <<>> =>
    LET extra(t) == IF log_cas_fails THEN fail_count[t] ELSE 0
    IN /\ special_value = counter + (IF log_cas_fails THEN Total(fail_count) ELSE 0)
       /\ \A t \in Threads :
            /\ increments[TidOf(t)] = count[t] + extra(t)
            /\ ~cas => even_increments[TidOf(t)] = even_count[t]

\* What inc_sim_cas prints as "fails", when the program has ended.
SimFails == Total(reads) - 2 * special_value

\* If main's own accesses are not traced (-r or -i) it is the program's number
\* of failed compare-and-swaps, in every order of increments and failures.
FailsMatch ==
  (register_threads \/ require_roi) /\ cas /\ ~log_cas_fails /\ pc[Main] = "done" /\ trace = <<>>
    => SimFails = Total(fail_count)

\* "verify that the output of both the simulation and the actual program are
\* the same", in the run without -r and -i that the README gives; "each inc
\* will read once before the CAS, read as part of the successful CAS and then
\* once for every failure".  The code does otherwise (README, "Disagreements").
PrintsFails ==
  cas /\ ~log_cas_fails /\ pc[Main] = "done" /\ trace = <<>> => SimFails = Total(fail_count)

\* No trace of a test program fails an assert of its simulator.
SimAccepts == stopped # "assert"

\* "print out any context changes as these may cause inconsistencies": the
\* simulator reads on behind a context change.  The code does otherwise
\* (README, "Disagreements").
ContextChangesPrinted == stopped # "TypeError"

\* The program ends and all of its trace is read, unless a context change
\* stops the simulator; no thread waits for ever at a barrier, and none loses
\* the race for the counter for ever.
RunEnds == <>((pc[Main] = "done" /\ trace = <<>>) \/ stopped = "TypeError")
=============================================================================

# Atomic memory trace: TLA+ models, checks and proofs

This directory holds TLA+ models of the programs in this repository, TLC
configurations that check them on small instances, and proofs that TLAPS
checks for instances of any size. `PROJECT.json` lists the runs, the mutants
that show each property can fail, the source lines behind every definition, and
the hazards the properties are for.

## 1. The system

| Component | Source | State | Operations | Model |
|---|---|---|---|---|
| Pintool, shared state | `trace/trace.cpp` | a clock, a buffer, a lock per thread; a clock and a lock per address block; known threads; region flag; trace file, `last_flushed` | analysis routines around instructions and functions, thread and context callbacks | `Tracer` |
| Pintool, one instruction | `trace/trace.cpp` | operand flags, lock list | header, operands, lock, footers | `MemoryAccess` |
| Merge utility | `src/merge.cpp` | a queue per thread, a heap of their heads, times last seen with a cached minimum | read a line, merge what may go | `Merge` |
| Queue of a thread | `src/merge.cpp` | ring of bytes, cursors, sizes | enqueue, dequeue, enlarge | `ThreadQueue` |
| drain_buffer | `src/drain_buffer.cpp` | two buffers, a flag, a barrier | reader and writer thread | `DrainBuffer` |
| Annotation library | `src/annotation.*` | none | functions the pintool recognises by name | in `IncTest`, `IncTrace` |
| Test programs | `src/inc.cpp`, `src/inc_cas.cpp` | a counter, four barriers, counts per thread | increments until a limit | `IncTest` |
| Simulators | `src/inc_sim*.py`, `src/AtomicTrace.py` | where the counter is, counts per thread, the last operands | a callback per line | `IncSim` |
| Test of the merge utility | `merge_test/*` | two files and a position in each | sort, compare bunches of lines of equal time | `CompareMerge`, `MergeTest` |

The parts form a pipeline. The traced program runs under the pintool, whose
routines run in the program's threads and share state under four kinds of
locks. Their lines go to a file or fifo, in the order in which buffers are
flushed. `drain_buffer` may stand in between. The merge utility turns the
flushed order into time order, and a simulator reads the result. So the
pintool owes the merge utility a file of a certain form, and the merge utility
owes the simulator a sorted one. `TraceContract` states that form once: it is
an invariant of the pintool's file and the definition of the merge utility's
input. `TracePipeline` puts the two together.

The repository tests this pipeline in two ways. The test programs count
themselves what a simulator counts again from their trace (`IncTrace`). The
merge utility's output is compared with that of the system's sort
(`MergeTest`).

What is hard here:

- **The pintool is one large concurrent program.** A routine may wait for
  address locks one at a time, then for its own lock, then for the start/finish
  lock and every other thread's lock. Address locks stay held until the next
  routine. Values are read under one lock and used under another: the region
  flag, the latest time of all threads, the threads picked for flushing.
- **Clocks are written by others.** A synchronisation and a flush move other
  threads' clocks and write into their buffers.
- **The order of effects is the product.** If a thread performs its access
  before another on the same memory, its line must have an earlier time.
- **The merge utility decides from a cached minimum** which lines can no longer
  be preceded, and hands out lines from queues, a heap and a map that must
  agree.
- **drain_buffer uses no lock**, only two barriers per round.
- **The tests rest on exact counts.** All threads of a test program race for the
  last increments, and each must make exactly one past the limit, inside a
  region that main opens and closes between barriers. The simulators find the
  increments again by address, in a trace that also has main's accesses, the C
  library's and the barriers'.

What makes each part correct:

- *Pintool*: clocks never go back; access times follow the order of effects;
  a synchronisation separates the file; each thread's lines increase in time,
  between its register and finish lines; nothing buffered is lost; routines
  return.
- *One instruction*: two instructions that share a byte share a lock; locks are
  taken in index order and none needlessly; the line tells what happened.
- *Merge*: sorted, complete, as early as possible, no assert fails.
- *Thread queue*: first in, first out, through wrap-around and growth.
- *drain_buffer*: a bounded pipe that ends.
- *Test programs*: an atomic addition, by whatever instruction; exactly the
  total that was asked for; they end.
- *Simulators*: the same counts as the program's, at every moment; no assert
  fails.
- *Comparison*: equal if and only if the files have the same lines in the order
  of their times; the times it names enclose the first difference.

## 2. Modules

| Module | What it is |
|---|---|
| `AtomicOrder` | abstract: an access is later than all earlier ones under any of its locks and of its thread |
| `TraceContract` | operators on a trace file: when it is well formed |
| `Tracer` | the pintool's state and actions |
| `TracerProperties` | its properties, the instances of the two above |
| `MemoryAccess` | an instruction at the level of bytes |
| `Merge`, `StreamSort` | the merge utility, and the sorter it implements |
| `ThreadQueue`, `FifoQueue` | the ring of bytes, and the queue it implements |
| `DrainBuffer`, `BoundedPipe` | the two threads, and the pipe they implement |
| `TracePipeline` | `Tracer` with `Merge` reading its file |
| `CompareMerge`, `MergeTest` | the comparison of two files; the test of `Merge` with it |
| `IncTest`, `FetchAndAdd` | the test programs, and the atomic addition they implement |
| `IncSim` | the simulators and the dispatch of lines to them |
| `IncTrace` | a test program under the pintool, and the simulator that reads its trace |
| `MC...` | constants for TLC |
| `TracerProofs`, `TracerFileProofs` | theorems about `Tracer`: its locks, times and clocks and the order of accesses; its file |
| `PipelineProofs` | theorems about `TracePipeline` |
| `MemoryAccessProofs`, `MergeProofs`, `ThreadQueueProofs`, `DrainBufferProofs`, `IncTestProofs` | theorems about the other components |

Operators whose comment begins with "Mutation of" belong to no specification:
they are versions of the definition after them with a plausible bug, for the
properties to find.

### Tracer

An action is what a thread does between two points where it may have to wait
while it holds something, or where another thread could see the difference.
`pc` names these points. Waiting is a step of its own for address locks (one
by one in index order, `AcquireAddressLock`), for the start/finish lock
(`EnterSync`, `PausedLock`) and for the other threads' locks
(`TakeThreadLock`); their release is too (`ReleaseAddressLock`,
`ReleaseThreadLock`). A critical section over the thread's own lock with the
file lock nested in it is one action, enabled when that lock is free: inside it
only variables under these two locks change.

| Code | Actions |
|---|---|
| `release_address_locks` at the start of every routine | `ReleaseAddressLock` until the list is empty; the guard `Idle` of everything else |
| `memory_access_header_a` and the operand routines | `MemoryAccessHeader` |
| `acquire_address_locks` | `AcquireAddressLock` |
| `memory_access_footer_a` before the instruction | `Footer`, then `Execute` |
| cmpxchg: the instruction, then both footers | `ExecuteCAS`, `CASFooter` |
| `touch_buffer` | operator `TouchBuffer` with `CheckLaggards`, part of every action that traces; its last block is `PausedLock`, `FlushOther`, `Restart` |
| `attempt_flush_others` | `FlushOther`, one thread a step |
| `function_call_a`, `function_return_a`, registered | `FunctionRegistered` |
| the same unregistered, `register_thread_a`, `change_roi_a`, `thread_start_a`, `thread_fini_a` | `EnterSync`, `TakeThreadLock`, `SyncBody`, `ReleaseThreadLock`, then `StartThread`, `FinishThread` or `LeaveSync` |
| `ctxt_change_release` | `ContextChange`; `Fault` for an instruction that Pin interrupts |
| `fini_a` | `Terminated` |

`pin_critical_section::pause` unlocks and does not note it, so `restart` does
nothing and the destructor unlocks again. `thread_lock` is therefore the set of
locked locks, without owners, and `Restart` takes the thread's lock out of it,
whoever has it.

History variables: `executed`, `performed` and `unlogged` record effects for
`AtomicOrder`, and `emitted` the lines that each thread has put in its buffer,
for `FinishedIsInFile`. They are not read by any guard. The locks of an access
(`due` in `TracerProperties`) are what the thread has in `index_lock_list` from
the header until the access is performed and traced: `AtomicOrder` fixes them
when the access begins, and only a time later than the last under each of them
performs it.

Left out or simplified: knob `-t`; thread ids are not used again and a thread
registers once; user ids are thread ids; the names and arguments in lines;
failures of the output file. The actions after a second unlock still treat a
critical section as one step, so runs in which it happens show fewer behaviours
than the code has. They are used only to find a violation and for progress.

### MemoryAccess

An instruction is a set of up to three operands (role, address, size): two
reads of one size and a write, of which it may have any. A compare-and-swap
reads and writes one operand. `MaxOperands` bounds their number. The
operand routines, thread-local, are one step, and so is `acquire_address_locks`,
whose order of waiting is in `Tracer`. `Init` takes every pair of knobs that
`main` accepts. `line` and `stored` are reset at the header, so that properties speak
of the last instruction. The code's bit operations are arithmetic here, which
the provers know: a shift is a division by a power of two (`Block`, `Power2`),
and `is_power_2` asks for such a power. `MCMemoryAccess` compares both with the
bitwise operators for small numbers, as an assumption that TLC evaluates.

### Merge and ThreadQueue

The input of `Merge` is chosen line by line among those that `TraceContract`
allows. It may end after any line: `getline` fails at a line of 128 characters,
and the traced program may be killed. An action is one iteration of a loop.
Asserts are on: one that fails leads to `pc = "failed"`, the one after the loop
to `"left"`. Which of several
entries of equal time is on top of the heap is left open. `StreamSort`, which
`Merge` implements, has the file itself as its input: a line that is read must go
in, and out once, unless it is a sync line. `ThreadQueue` has the bytes; its
lines are at most three times the first capacity, so that one enlargement is
enough (in the code: less than 128 bytes against a million).

### DrainBuffer

`fread` and `fwrite` move any positive number of bytes. The end of the input is
found by a short read or by a read of nothing. A barrier is one step of both
threads.

### TracePipeline

Every action of `Tracer`, and `Merge!ReadLine` on the lines of `trace_file`
instead of chosen ones, without the contract as a guard. `Merge` goes first
whenever there is a line to read: it never holds the pintool up, and what it
does depends only on the lines, so a `Merge` that lags shows a part of what this
one shows. `effects` records whose accesses take effect, in order; no guard
reads it.

### CompareMerge and MergeTest

`compare` is a function of two positions, one for each file; a bunch is the
lines from a position on that have its time. The times and line numbers it
keeps in variables are functions of the positions. One turn of its loop is
`Turn`. The system's sort is an insertion sort in the order of times, ties in
that of thread ids; sync lines are left out on the way. `MergeTest` is `Merge` with
the result of `test1` for its output, and with outputs that a wrong merge
utility might have written, for the comparison to find out.

### IncTest, IncSim and IncTrace

A step of `IncTest` ends at an access to the counter, at a barrier, or where a
thread is created or ends. `cas` says which of the two programs it is. Each
barrier is a set of those who wait at it, `pthread_barrier_wait` two steps.
`old_val` is set by the addition itself, so that `FetchAndAdd` can be stated of
it. `fail_count` is incremented with the comparison that fails; the code does
it in the next turn of the loop, and only the thread itself reads it.

In `IncSim` a step is one line. `read` and `written` are the operands that
`run()` keeps from line to line, with the flags whether this line has them. The
first failed assert, or the `TypeError`, ends the run.

`IncTrace` puts the lines of each step at the end of a short queue that the
simulator reads: that the order of lines is the order of effects is what the
pintool (`ImplementsAtomicOrder`) and the pipeline (`OutputIsExecution`) are
checked for. Of the pintool it has the choice whether an access is traced
(`-r`, `-i`), the thread id in the line, and whether a failed compare-and-swap
is a write (`-c`). It includes the accesses near the counter that are not the
loops': main's initialisation and check, the header of the block that `free`
looks at, and whether it looks further.

## 3. Runs

| Run | Instance | Shows |
|---|---|---|
| `TracerAccess` | 2 threads, 2 locks, accesses to one or both, flush after 2 entries, times to 5 | `TypeOK`, `ClocksAdvance`, `ImplementsAtomicOrder` |
| `TracerSync` | 3 threads, times to 4 | `ThreadLockDiscipline`, `SyncTimeIsLatest`, `MergeContract`, `SyncIsBarrier`, `FinishedIsInFile` |
| `TracePipeline` | 2 threads, 1 lock, `-r -i`, difference 2: synchronisations flush others; `Merge` reads | `MergeContract`, `SyncIsBarrier`, `FinishedIsInFile`, `ClocksAdvance`, `UtilitySucceeds`, `OutputIsExecution` |
| `TracerProgress` | flush at every entry, difference 1: every routine pauses; faults; main may end first | `RoutinesReturn` |
| `MemoryConflict` | 2 threads, 4 bytes, operands of 2 bytes, up to 3 of them in the threads' instructions together, 1 or 2 locks, blocks of 1 or 2 bytes | `TypeOK`, `ConflictsExclude`, `LocksFitInstruction`, `LineTellsAccess` |
| `Merge` | 2 ids and unregistered lines, files to 7 lines, times to 4; outputs to 4 lines damaged in every way | `TypeOK`, `AssertsHold`, `HeapHasHeads`, `MergesAllAllowable`, `SortsStream`, `TestPasses`, `CompareIsExact`, `CompareTellsWhere` |
| `ThreadQueue` | first capacity 3, lines of 1 to 3 bytes, 3 lines queued | `RepInv`, `IsFifo` |
| `DrainBuffer` | buffers of 4, inputs of 0 to 12 bytes | `TypeOK`, `NoSharing`, `IsPipe`, `Delivers` |
| `IncTrace` | both programs, 2 threads, total 5, knobs `-r`, `-i`, `-c` in every combination, 2 lines on the way, a context change | `TypeOK`, `InsertsAll`, `IsFetchAndAdd`, `SimMatchesProgram`, `FailsMatch`, `SimAccepts`, `RunEnds` |

Bounds. A thread whose clock has reached `MaxTime` only finishes, so every
behaviour can end. Two threads are enough for a race between two and three for
a synchronisation that meets one thread in a routine and another in a
synchronisation of its own. Two locks and accesses that need both give every
order of waiting. Files of seven lines hold two registrations, two finishes and
three lines between them, which is enough for a line that waits, one that makes
it safe and one that comes in later. A ring of three bytes wraps and grows
within a few lines, and the new one wraps again. Inputs of up to three buffers
end inside a buffer, at its last byte and before its first. A total of 5 for two
threads is a limit of 3: even and odd values, a first and a last increment of
each thread, and failed comparisons in between; one context change stops the
simulator at any point. One lock in `TracePipeline` makes all accesses share
it, so that there is one order to compare the output with. `DrainBuffer` and
`Merge` stop on purpose; `Merge` (also when the input can go no further within
its bounds) has the deadlock check off.

The safety runs of `Tracer` whose threads could otherwise reach `pause` set
either the allowed difference or the flush limit high: a critical section is
then never paused, and lagging threads are flushed by synchronisations only
(`TracePipeline`). What goes wrong with the pause is shown by
`TracerDoubleUnlock`.

### Fairness

`Tracer!FairSpec` has weak fairness for each thread of `Obliged`: a routine that
has begun goes on whenever it can, since the operating system runs every
thread; the next instruction, whose first routine releases the address locks,
follows; a created thread starts and a faulting one is interrupted. Nothing is
assumed of what the program does next. Weak fairness is enough in these
instances although mutexes are not fair, because each program is bounded: who
loses a mutex competes only finitely often. `DrainBuffer!FairSpec` has weak
fairness of both threads and of the barrier. `IncTrace!FairTraceSpec` has weak
fairness of main, of each thread's steps, of each party's barrier steps and of
the simulator: separate processes and threads that the operating system runs.
Context changes are not assumed. A thread can lose a compare-and-swap only to
another's increment, of which there are finitely many, so weak fairness gives
`RunEnds`.

### Disagreements between code and documentation

These are runs that find a violation.

| Run | What happens |
|---|---|
| `TracerRegionRace` | `in_roi` is tested in the header; the access gets its time later, after an `end_roi`. README.md:70 says accesses are traced only in the region |
| `TracerDoubleUnlock` | `pause()` (trace.cpp:67) and the destructor both unlock; a thread's lines do not increase in time (README.md:205) |
| `TracerSeparation` | threads whose clocks were moved by synchronisations are never flushed, the file's times drift apart (README.md:340) |

Others have no run of their own; each shows when one thing in the `.cfg` of a
passing run is changed. The first four are cases that the passing runs leave
out. The next three are statements of the documentation that are written down
beside the properties.

- A compare-and-swap that faults has taken its locks and not their times, and
  the context change sets the locks' clocks back to the thread's
  (trace.cpp:446); README.md:320 says "All address locks and the accessing
  thread must be updated to this access timestamp". Add `"fault"` to `Program`
  in `TracerAccess.cfg`, and `ClocksAdvance` and `LocksRememberAccesses` fail;
  without it both hold.
- When all known threads finish before a created one starts, time starts at 1
  again (trace.cpp:352, README.md:328): add `"detach"` to `Program` in
  `TracerSync.cfg`, and `MergeContract` and `SyncIsBarrier` fail.
- An id that registers again while its finished thread's lines still wait fails
  the assert at merge.cpp:123: set `Reuse = TRUE` in `Merge.cfg`, and
  `AssertsHold` fails.
- A context change of a thread that is not registered is traced, at its own time
  and without a synchronisation (trace.cpp:792 "only record if on a registered
  thread", merge.cpp:31 "must synchronize first"): add `"ctxt"` to `Program` in
  `TracePipeline.cfg`, and `MergeContract` fails.
- Without `-r` and `-i`, as in README.md:255-268, main is traced, and what it
  reads of the counter counts as failures: the simulator does not print the
  program's number. `FailsMatch` speaks of the other runs, where it does;
  `PrintsFails` says it of all of them, and fails as an invariant in
  `IncTrace.cfg`. Main's own check of the counter is enough for that. What else
  main's accesses add depends on the C library: the test for the special address
  (inc_sim_cas.py:60, inc_sim.py:59) takes in the byte after an operand and the
  byte behind the memory, so that a look of `free` at the header in front of the
  counter counts too.
- A context change ends a simulation with a TypeError (AtomicTrace.py:107), the
  simulators say "print out any context changes" (inc_sim.py:30):
  `ContextChangesPrinted` fails as an invariant in `IncTrace.cfg`. `RunEnds` has
  this end as an alternative.
- The times that `compare` returns are those of the last bunches that agreed,
  its comment says "timestamp where first differ" (CompareMerge.py:11):
  `ReportsDifference` fails as an invariant in `Merge.cfg`. `CompareTellsWhere`
  says how the times enclose the place.

And of the documentation, without a check:

- `-c` logs failed compare-and-swaps as writes (trace.cpp:925), README.md:95
  says the opposite; `LineTellsAccess` states what the code does.
- The assert that merge.cpp:34 promises, that lines of unregistered threads do
  not go out late, does not exist; in the files of `TraceContract` they do not,
  but a context change of an unregistered thread writes one that does.
- Without `-r` the simulators' thread ids are Pin's, not the programs' own:
  "verify that the output of both the simulation and the actual program are the
  same" (README.md:261) holds up to the ids (`TidOf`).
- Test.py:52 and CompareMerge.py:114 print a line number as the second file's
  time, and Test.py uses names it does not define.
- A line of 128 or more characters ends the input of the merge utility without a
  message. If lines are waiting, its last assert fails (`AssertsHold`); if none
  are, it reports success and the rest of the file is lost.

## 4. Proofs

All theorems hold for any constants that satisfy the named assumptions of the
modules: any number of threads and locks, any footprints, knobs and programs,
any capacity and input, any number of increments.

| Theorem | Statement |
|---|---|
| `TracerProofs!TypeCorrect` | `Spec => []TypeOK` |
| `TracerProofs!LocksAreHeld` | `Spec /\ []NeverPaused => []ThreadLockDiscipline` |
| `TracerProofs!LatestWhenUsed` | `Spec /\ []NeverPaused => []SyncTimeIsLatest` |
| `TracerProofs!ClocksOnlyAdvance` | `NoFault => (Spec /\ []NeverPaused => ClocksAdvance)` |
| `TracerProofs!AccessesAreOrdered` | `NoFault => (Spec /\ []NeverPaused => ImplementsAtomicOrder)` |
| `TracerFileProofs!FileMeetsContract` | `Cooperative => (Spec /\ []NeverPaused => []MergeContract)` |
| `TracerFileProofs!SyncsDivideFile` | `Cooperative => (Spec /\ []NeverPaused => []SyncIsBarrier)` |
| `TracerFileProofs!NothingIsLost` | `Cooperative => (Spec /\ []NeverPaused => []FinishedIsInFile)` |
| `PipelineProofs!UtilityNeverFails` | `Cooperative => (PipelineSpec /\ []NeverPaused => []UtilitySucceeds)` |
| `PipelineProofs!OutputIsTheExecution` | `Cooperative /\ NoFault => (PipelineSpec /\ []NeverPaused => []OutputIsExecution)` |
| `MemoryAccessProofs!TypeCorrect` | `Spec => []TypeOK` |
| `MemoryAccessProofs!AccessesExclude` | `Spec => []ConflictsExclude` |
| `MemoryAccessProofs!LocksAreExact` | `Spec => []LocksFitInstruction` |
| `MemoryAccessProofs!LineIsAccess` | `Spec => []LineTellsAccess` |
| `MergeProofs!TypeCorrect` | `Spec => []TypeOK` |
| `MergeProofs!HeapIsHeads` | `Spec => []HeapHasHeads` |
| `MergeProofs!AllowableAreMerged` | `Spec => []MergesAllAllowable` |
| `MergeProofs!AssertsNeverFail` | `~Reuse => (Spec => []AssertsHold)` |
| `MergeProofs!SortsAsStream` | `Spec => SortsStream` |
| `MergeProofs!TestAlwaysPasses` | `~Reuse => (Spec => []TestPasses)` |
| `MergeProofs!ComparisonIsExact` | `Spec => []CompareIsExact` |
| `MergeProofs!ComparisonTellsWhere` | `Spec => []CompareTellsWhere` |
| `ThreadQueueProofs!RingIsSound` | `Spec => []RepInv` |
| `ThreadQueueProofs!RingIsFifo` | `Spec => IsFifo` |
| `IncTestProofs!ProgramTypeCorrect` | `Spec => []ProgramTypeOK` |
| `IncTestProofs!TotalIsExact` | `Spec => []InsertsAll` |
| `IncTestProofs!IncrementsAreAtomic` | `Spec => IsFetchAndAdd` |
| `IncTestProofs!TracedProgramIsProgram` | `TraceSpec => Spec /\ []InsertsAll /\ IsFetchAndAdd` |
| `IncTestProofs!TraceTypeCorrect` | `TraceSpec => []TypeOK` |
| `IncTestProofs!SimCountsProgram` | `TraceSpec => []SimMatchesProgram` |
| `IncTestProofs!FailsAgree` | `TraceSpec => []FailsMatch` |
| `IncTestProofs!SimNeverFails` | `TraceSpec => []SimAccepts` |
| `DrainBufferProofs!TypeCorrect` | `Spec => []TypeOK` |
| `DrainBufferProofs!BuffersAreNotShared` | `Spec => []NoSharing` |
| `DrainBufferProofs!BuffersArePipe` | `Spec => IsPipe` |

`NeverPaused` says that no thread is in the pause/restart path, `NoFault` that
no instruction faults, `Cooperative` that main finishes last (no `"detach"`) and
that with `-r` no context changes are reported, and `~Reuse` that no id registers
again. They are hypotheses because the code violates the conclusions
without them (`TracerDoubleUnlock`, and the first four points of the list after
the table in section 3). The runs of section 3 satisfy them where they check the
same properties.

**Pintool.** `ThreadLockDiscipline` is not inductive: that a synchronisation has
every lock at its body needs to know where the locks it took are and that only
the owner of the start/finish lock is between taking and leaving. The invariant
of `TracerProofs` adds both. On top of it the same module shows that the
running maximum bounds the clocks of the threads whose locks have been taken: a
clock changes only in an action that needs the thread's lock free or belongs to
the synchronisation itself. Further on it adds where address locks are:
the owner of a lock has it in its list, a free lock's clock is at least the
time of the last access under it (`AddressClock`), and between the choice of a
time and the release of the locks the owner's clock is at least that time
(`ExecutedClock`, `PerformedClock`); a compare-and-swap that is performed and
not yet traced keeps its locks (`OpenCAS`). The locks due are those
of the access a thread is in (`DueLocks`), none of which it lets go before the
access is done. So the time of an access exceeds the last one under each of
these locks and the thread's own last one, which is the step `Perform` of
`AtomicOrder`; the header is its `Begin`, a compare-and-swap its `TakeEffect`.

**Trace file.** `MergeContract` and `SyncIsBarrier` speak of the file only: what
may be appended depends on the buffers and clocks, so neither is inductive.
`FileInv` of `TracerFileProofs` adds: the lines of a buffer grow in time, end at
most at the thread's clock and come after the thread's lines in the file
(`StreamInv`, `OwnLines`); a registered thread has one register line, one finish
line once it is closed and none before, later than its last access
(`RegisterLines`, `FinishLines`); no time in the file exceeds the clocks of all
bounding threads, which is what a synchronisation takes its time from
(`FileBound`); after a synchronisation every live thread's clock is at its
time, or will be when the thread's lock is let go (`PastSync`). `ControlInv` says
which threads are registered where, and that main is first and last;
`TimesInv` and `ClockInv` where the latest time is. For the file every action is
a `FileStep`, which changes nothing, adds a line to a buffer, or writes a buffer and a
line; that such a step keeps `FileInv` is proved once, one lemma for each part.
`FinishedIsInFile` rests on `EmittedInv`: every line a thread has put in its
buffer is still there (`Waiting`), or in the file and not behind the thread's
finish line (`Placed`). A step either logs one more line or moves a buffer to the
file (`LogStep`). That the line is in the file only once follows from
`MergeContract`: two lines of one thread have different times (`NoLineTwice`).

**Pipeline.** `Merge` is used with the lines of `Tracer`, so `MergeProofs`, whose
lines come from an environment under the contract, does not apply: here the
contract is a theorem. `ChainInv` of `PipelineProofs` is `PintoolInv`, which
`FileMeetsContract` rests on, with `ReadInv` (the lines read are a beginning of
the file) and `UtilityInv`, the invariant of the merge utility over the lines
read (`ListInv`, `CacheInv`, `QueueInv`, `HeapInv`, `RestInv`, `ContentsInv`). The
two meet in `LineFollows`: a line of the file `Follows` those before it, which is
what each branch of the utility needs. The utility lags by at most a few lines
in the model, but nothing in `UtilityInv` says so.

That the output is the execution cannot be seen from the file, where the
entries of several threads' buffers are not in the order of their times.
`ExecInv` adds that all who hold an entry's access hold the one lock
(`SingleLock`, `AccessInv`), and that there is a sequence of all entries made,
in the file or in a buffer, which grows in time (`IsOrder`), has the threads of
`effects` in their order but for the one access that is traced and not yet
performed, or performed and not yet traced (`IsEffect`), and begins with the
accesses in the output (`Matches`). A new entry goes to its end, because its time
exceeds all others' under the lock; a line that goes out is the next one, because
no access that is not out is earlier (`EmitLeast`): it is in a queue behind a
head, or its thread is still open and its last line read bounds it, or the
thread's register line is not read yet, and then `SyncIsBarrier` does.

**One instruction.** The locks of an operand are computed from its first and
last block; `ConflictsExclude` speaks of bytes. `LockIndicesAre` bridges the
two: the indices are the locks of the operand's bytes, also when there are more
blocks than locks and when the indices wrap around, which takes the arithmetic
of division and remainder (`ModEarly`, `ModTwice`) and that `block_size` is the
power of two that `Block` shifts by (`KnobsFit`). That `LockList` has a list to
choose is an existence proof over finite sets of numbers (`ListExists`). The
invariant `MemInv` adds to the types that an owner's list is that of its
instruction and its locks its own (`OwnsList`), and that flags and line belong
to the instruction (`NotesAccess`, `WritesLine`). Two owners of a shared byte
would own one lock.

**Merge utility.** The input is any file that `TraceContract` allows, or a
beginning of one. `MergeInv` says that `tt_list` has the active threads of what
was read with the last time of each, and the cached minimum is the least of
these (`ActiveInv`, `CacheInv`); that each queue has lines of its thread only,
growing in time and none later than the last that was read, and is marked as
finished only when its thread is (`QueueInv`); that what went out is at most the
frontier and at most everything queued (`OutInv`); and what is left in the
queues when the next line is read (`RestInv`), which the assert after the loop
needs. `HeapHasHeads` and `MergesAllAllowable` are not inductive without them:
the top of the heap is the least line queued only because the queues grow.
Merging a line is then `StreamSort`'s step `Emit`, reading a line `Receive`, or
`Drop` if it is a sync line, the last assert `Finish`.

**Comparison of files.** How often a line is in a part of a file (`Copies`) is a
count that splits where the part is split (`CopiesSplit`), and two files are the
same bag if all their counts agree (`BagCopies`). `TurnIsExact` goes through one
turn of the loop: in a file in order a bunch has all the lines of its time
(`BunchHasAll`), so two rests have the same lines if and only if their bunches
have and the rests behind them do. From the last turn back to the first this
makes `compare` exact (`CompareExact`), and in the same way it finds a pair of
positions up to which the files agree and from which they do not
(`CompareTellsPart`). Insertion keeps a file sorted and adds one line
(`InsertSorted`, `InsertCopies`); so the system's sort gives the lines of the
trace, save sync lines, in order (`SortedIs`). `WrittenInv` says the same of the
merge utility's output and queues together: the lines written are in order, and
each line read, save sync lines, is either written or queued. At the end of a
finished file the queues are empty (`RestInv`), and the test passes.

**Thread queue.** `RingInv` is `RepInv` for some capacity at least the first one.
For `IsFifo` each action is shown to change `LinesInRing` as `FifoQueue` says: a
line is at the sum of the sizes before it, modulo the capacity; a copy into the
free part leaves the bytes in use alone, and `CopyOut` gives back what `CopyIn`
has put there, also around the end (`Wrap`); enlargement copies the bytes in
use, in order, to the start of the new buffer (`GrownBytes`).

**drain_buffer.** `PhaseInv` relates the places of the two threads and their
buffers: they are on different buffers until both have passed the second
barrier, and on the same one only while exactly one of them has turned to its
next round. `NoSharing` follows. `DataInv` adds that the end of the input is
known only when all of it is in buffers and that the writer leaves a buffer
only when it is written. Under both, reading n bytes is `Put`, writing n bytes
is `Get`, the last return is `Close`, and every other step leaves what the pipe
holds (the rest of the buffer being written, then the buffer being filled) as
it is.

**Test programs.** That main's assert holds is not inductive. `LimitInv` relates
the counter to the threads: up to the limit no thread has left its loop, and
past it the counter is the limit plus the number of threads that have left. An
increment that finds the counter at or past the limit is its thread's last one,
so it adds one to both. When main has joined all threads, all have left, and
the counter is the limit plus `num_threads`. `SeenInv` adds that a thread in its
loop has not seen the limit, which is the guard of `FetchAndAdd!Add`. A step
that makes no increment leaves all of this alone (`QuietStep`).

**Simulators.** `SimMatchesProgram` says nothing while lines are on the way.
`TraceInv` reads them in thought: a `Path` through them leads the simulator to a
state that `Matches` the program, at every moment. A step of the program puts
lines at the end that lead from any state that matches to one that matches
again (`Follows`, one lemma for each kind of step), and reading a line is the
first step of the path (`PathHead`), on which no assert fails (`SimReads`). That
the increments are traced at all needs the barriers: while a thread is in its
loop, main is between the two that open and close the region of interest
(`GateInv`, `LoopInRoi`). For `FailsMatch` the invariant counts reads: two for
each increment, one for each failure, one for each thread that has read and not
yet compared (`InCas`), and those of main if they are traced. Sums over threads
are folds over sets; `TotalPlus1` says what one more in one place does to them.

Functions over numbers, sets and sequences (powers of two, sums of sizes and of
counts) are recursive functions or folds. What is needed of them is proved by
minimal counterexamples in sets of numbers (`Induction` of `IncTestProofs` and of `MergeProofs`),
since the library's induction theorems take operators as arguments, which the
provers cannot instantiate.

Only model-checked: progress (`RoutinesReturn`, `Delivers`, `RunEnds`), as it
needs fairness and `ENABLED`.

## 5. Plan

Done, in this order: `AtomicOrder`, `TraceContract`, `Tracer` with its runs and
proofs, `MemoryAccess`, `DrainBuffer` with its proofs, `Merge`, `ThreadQueue`,
`IncTest` with its proofs, `IncSim`, `IncTrace`, `CompareMerge`, `MergeTest`,
`TracePipeline`.

Then the proofs of the trace file, of `MemoryAccess`, `Merge`, `ThreadQueue`,
of the simulators, of `TracePipeline`, and of the comparison of files. What is
left to TLC is progress alone.

Not modelled, and not planned: the build files and shell pipelines, symbol
lookup and knob parsing, the format of lines, the loop and the directories of
Test.py, I/O errors. A read or write that fails for good is a step that changes
nothing: the safety properties of `DrainBuffer` hold with it, and `Delivers`
assumes that it does not happen.

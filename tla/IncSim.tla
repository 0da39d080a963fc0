------------------------------- MODULE IncSim -------------------------------
(***************************************************************************)
(* The simulators inc_sim.py and inc_sim_cas.py, with the dispatch of      *)
(* AtomicTrace.py: they rebuild from a trace what the test program counted *)
(* itself.  A step is one line of the trace; a failed assert or another    *)
(* exception ends the run.                                                 *)
(*                                                                         *)
(* A memory line has a read operand r and a write operand w, either may be *)
(* None; no instruction of the test programs reads twice.  The arguments   *)
(* of a function line are those the simulators look at: the size of the    *)
(* special memory in a call, its address in a return.                      *)
(***************************************************************************)
EXTENDS Integers

CONSTANT Tids   \* thread ids in the trace

None == [address |-> 0, size |-> 0]

VARIABLES
  read, written,                  \* run()'s operands; a line without one keeps the last
  special_address, special_size, special_value,
  active_threads,
  increments, even_increments,    \* per thread id
  reads,                          \* inc_sim_cas only
  stopped                         \* the exception that ended the run, or "no"

simVars == <<read, written, special_address, special_size, special_value, active_threads,
             increments, even_increments, reads, stopped>>

SimInit ==
  /\ read = None /\ written = None
  /\ special_address = 0 /\ special_size = 0   \* None and 0 are both false
  /\ special_value = 0
  /\ active_threads = {}
  /\ increments = [x \in Tids |-> 0]
  /\ even_increments = [x \in Tids |-> 0]
  /\ reads = [x \in Tids |-> 0]
  /\ stopped = "no"

\* assert
Asserts(condition) == stopped' = IF condition THEN stopped ELSE "assert"

Plus1(f, x) == [f EXCEPT ![x] = @ + 1]

\* Mutation of Touches: a whole cache line on either side counts.
TouchesWide(o) ==
  \/ o.address < special_address /\ o.address + o.size + 64 >= special_address
  \/ o.address >= special_address /\ o.address <= special_address + special_size + 64

\* "matches special address": an operand that ends where the memory begins,
\* or begins where it ends, matches too.
Touches(o) ==
  \/ o.address < special_address /\ o.address + o.size >= special_address
  \/ o.address >= special_address /\ o.address <= special_address + special_size

\* Mutation of IsRMW: have_read_1 and have_write are not looked at.
IsRMWStale(line) == read' = written'

IsRMW(line) == line.r # None /\ line.w # None /\ read' = written'

\* "check that we touch exactly the first 8 bytes"
IsCounter(o) == o = [address |-> special_address, size |-> 8]

\* memory_access of inc_sim
IncAccess(line) ==
  IF special_address # 0 /\ IsRMW(line) /\ Touches(written')
  THEN /\ Asserts(IsCounter(written'))
       /\ even_increments' = IF special_value % 2 = 0 THEN Plus1(even_increments, line.tid)
                             ELSE even_increments
       /\ increments' = Plus1(increments, line.tid)
       /\ special_value' = special_value + 1
       /\ UNCHANGED reads
  ELSE UNCHANGED <<stopped, even_increments, increments, special_value, reads>>

\* Mutation of CountsRead: the read of an increment is not counted.
CountsReadOnly(line) == line.r # None /\ line.w = None

\* Reads of the special memory: a read alone, or with the write of the
\* same operand.
CountsRead(line) == line.r # None /\ (line.w = None \/ IsRMW(line))

\* memory_access of inc_sim_cas
IncCASAccess(line) ==
  IF special_address # 0 /\ line.r # None /\ Touches(read')
  THEN /\ Asserts(IsRMW(line) => IsCounter(read'))
       /\ increments' = IF IsRMW(line) THEN Plus1(increments, line.tid) ELSE increments
       /\ special_value' = IF IsRMW(line) THEN special_value + 1 ELSE special_value
       /\ reads' = IF CountsRead(line) THEN Plus1(reads, line.tid) ELSE reads
       /\ UNCHANGED even_increments
  ELSE UNCHANGED <<stopped, even_increments, increments, special_value, reads>>

MemoryAccess(line, cas) ==
  /\ line.op = "m"
  /\ read' = IF line.r = None THEN read ELSE line.r
  /\ written' = IF line.w = None THEN written ELSE line.w
  /\ IF cas THEN IncCASAccess(line) ELSE IncAccess(line)
  /\ UNCHANGED <<special_address, special_size, active_threads>>

StartThread(line) ==
  /\ line.op = "tr"
  /\ Asserts(line.tid \notin active_threads)
  /\ active_threads' = active_threads \cup {line.tid}
  /\ UNCHANGED <<read, written, special_address, special_size, special_value, increments,
                 even_increments, reads>>

FinishThread(line) ==
  /\ line.op = "tf"
  /\ Asserts(line.tid \in active_threads)
  /\ active_threads' = active_threads \ {line.tid}
  /\ UNCHANGED <<read, written, special_address, special_size, special_value, increments,
                 even_increments, reads>>

FunctionCall(line) ==
  /\ line.op = "fc"
  /\ IF line.name = "special_malloc"
     THEN /\ Asserts(special_address = 0 /\ special_size = 0)
          /\ special_size' = line.value
     ELSE /\ Asserts(line.name = "special_free")
          /\ UNCHANGED special_size
  /\ UNCHANGED <<read, written, special_address, special_value, active_threads, increments,
                 even_increments, reads>>

FunctionReturn(line) ==
  /\ line.op = "fr"
  /\ IF line.name = "special_malloc"
     THEN /\ Asserts(special_address = 0 /\ special_size >= 8)
          /\ special_address' = line.value
     ELSE /\ Asserts(line.name = "special_free")
          /\ UNCHANGED special_address
  /\ UNCHANGED <<read, written, special_size, special_value, active_threads, increments,
                 even_increments, reads>>

ChangeRoi(line) ==
  /\ line.op \in {"start_roi", "end_roi"}
  /\ UNCHANGED simVars

\* run() calls end_roi with an argument too many: a TypeError.
CtxtChange(line) ==
  /\ line.op = "ctxt_change"
  /\ stopped' = "TypeError"
  /\ UNCHANGED <<read, written, special_address, special_size, special_value, active_threads,
                 increments, even_increments, reads>>

\* One turn of run()'s loop.
SimStep(line, cas) ==
  /\ stopped = "no"
  /\ \/ MemoryAccess(line, cas)
     \/ StartThread(line)
     \/ FinishThread(line)
     \/ FunctionCall(line)
     \/ FunctionReturn(line)
     \/ ChangeRoi(line)
     \/ CtxtChange(line)
=============================================================================

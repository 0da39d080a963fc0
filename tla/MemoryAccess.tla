---------------------------- MODULE MemoryAccess ----------------------------
(***************************************************************************)
(* The analysis routines of one instruction, at the level of addresses     *)
(* (trace/trace.cpp): which address locks an instruction takes, and what   *)
(* its line says it did.  Tracer models the waiting, the clocks and the    *)
(* buffers; here acquire_address_locks is one step, and an instruction is  *)
(* the set of its memory operands.                                         *)
(***************************************************************************)
EXTENDS Integers, Sequences, FiniteSets, SequencesExt

CONSTANTS
  Threads,
  Nobody,
  MaxAddress,   \* bound: bytes 0 .. MaxAddress
  Sizes,        \* bound: sizes of memory operands
  MaxOperands,  \* bound: memory operands of an instruction
  MaxKnob       \* bound: the knobs -l and -b

ASSUME SizesAssumption == Sizes \subseteq Nat \ {0} /\ MaxAddress \in Nat /\ MaxOperands \in Nat
ASSUME NobodyAssumption == Nobody \notin Threads
ASSUME KnobAssumption == MaxKnob \in Nat

VARIABLES
  num_locks, block_size, block_size_log, log_cas_fails,  \* fixed by main
  pc,
  instr,              \* the instruction: its operands, and whether it is a cmpxchg
  stored,             \* its write has not failed (a compare-and-swap may fail)
  trace_this_access,
  operands,           \* thread_data_t: is_read, is_read2, is_write and what goes with them
  index_lock_list,
  address_lock,       \* owner of each lock of address_lock_bank
  line                \* the operands in its line, once it is traced

knobs == <<num_locks, block_size, block_size_log, log_cas_fails>>
vars == <<knobs, pc, instr, stored, trace_this_access, operands, index_lock_list,
          address_lock, line>>

Operands == {o \in [role : {"r", "r2", "w"}, address : 0 .. MaxAddress, size : Sizes] :
               o.address + o.size - 1 <= MaxAddress}

\* What an instruction can need: at most two reads and a write, the reads of the
\* same size (thread_data_t has one read_size).
Instructions ==
  {i \in {{o, p, q} : o, p, q \in Operands} :
     /\ Cardinality(i) <= MaxOperands
     /\ \A o, p \in i : o # p => o.role # p.role
     /\ \A o \in i : o.role = "r2" => \E p \in i : p.role = "r" /\ p.size = o.size}

\* A compare-and-swap reads and writes one operand.
CanBeCAS(i) ==
  /\ \A o \in i : o.role # "r2"
  /\ \E o, p \in i : o.role = "r" /\ p.role = "w" /\ o.address = p.address /\ o.size = p.size

(***************************************************************************)
(* Pure operators                                                          *)
(***************************************************************************)
Power2(n) ==
  LET power[i \in 0 .. n] == IF i = 0 THEN 1 ELSE 2 * power[i - 1]
  IN power[n]

\* A positive num that has no bit in common with num - 1.
is_power_2(num) == num > 0 /\ \E n \in 0 .. num : num = Power2(n)

\* Mutation of binary_log: the last shift counts too.
binary_logOver(num) ==
  LET shifts[n \in 0 .. num] == IF n = 0 THEN 0 ELSE 1 + shifts[n \div 2]
  IN IF num <= 0 THEN 0 ELSE shifts[num]

\* The number of times num can be shifted right before it is 0, less one.
binary_log(num) ==
  LET shifts[n \in 0 .. num] == IF n \div 2 = 0 THEN 0 ELSE 1 + shifts[n \div 2]
  IN IF num <= 0 THEN 0 ELSE shifts[num]

\* address >> block_size_log
Block(address) == address \div Power2(block_size_log)

\* Mutation of LastBlock: only the block of the first byte.
LastBlockFirst(address, size) == Block(address)

LastBlock(address, size) == Block(address + size - 1)

\* lock_index and the loop around it: the indices to lock for one operand,
\* consecutive modulo the number of locks, at most all of them.
LockIndices(address, size) ==
  LET first == Block(address)
      number == LastBlock(address, size) - first + 1
      to_lock == IF number > num_locks THEN num_locks ELSE number
  IN [i \in 1 .. to_lock |-> ((first % num_locks) + (i - 1)) % num_locks]

\* Mutation of LockList: duplicates stay.
LockListRepeats(ops) ==
  SortSeq(FlattenSeq([i \in 1 .. Cardinality(ops) |->
            LockIndices(SetToSeq(ops)[i].address, SetToSeq(ops)[i].size)]), <)

\* index_lock_list once it is sorted and its duplicates are gone
LockList(ops) ==
  LET indices == UNION {ToSet(LockIndices(o.address, o.size)) : o \in ops}
  IN CHOOSE list \in [1 .. Cardinality(indices) -> indices] :
       /\ ToSet(list) = indices
       /\ \A i, j \in DOMAIN list : i < j => list[i] < list[j]

(***************************************************************************)
(* The analysis routines                                                   *)
(***************************************************************************)
\* main stops unless both knobs are powers of 2.
Init ==
  /\ num_locks \in {k \in 0 .. MaxKnob : is_power_2(k)}
  /\ block_size \in {k \in 0 .. MaxKnob : is_power_2(k)}
  /\ block_size_log = binary_log(block_size)
  /\ log_cas_fails \in BOOLEAN
  /\ pc = [t \in Threads |-> "idle"]
  /\ instr = [t \in Threads |-> [ops |-> {}, cas |-> FALSE]]
  /\ stored = [t \in Threads |-> TRUE]
  /\ trace_this_access = [t \in Threads |-> FALSE]
  /\ operands = [t \in Threads |-> {}]
  /\ index_lock_list = [t \in Threads |-> <<>>]
  /\ address_lock = [l \in 0 .. num_locks - 1 |-> Nobody]
  /\ line = [t \in Threads |-> {}]

\* release_address_locks: every analysis routine that begins an instruction
\* starts with it.
Released(t) ==
  [l \in DOMAIN address_lock |->
     IF l \in ToSet(index_lock_list[t]) THEN Nobody ELSE address_lock[l]]

ReleaseLocks(t) ==
  /\ address_lock' = Released(t)
  /\ index_lock_list' = [index_lock_list EXCEPT ![t] = <<>>]

\* memory_access_release_a, before an instruction without memory operands
Release(t) ==
  /\ pc[t] = "idle"
  /\ index_lock_list[t] # <<>>
  /\ ReleaseLocks(t)
  /\ UNCHANGED <<knobs, pc, instr, stored, trace_this_access, operands, line>>

\* memory_access_header_a; whether to trace depends on the region of interest
\* and on the thread's registration.
Header(t, ops, cas, traced) ==
  /\ pc[t] = "idle"
  /\ cas => CanBeCAS(ops)
  /\ ReleaseLocks(t)
  /\ instr' = [instr EXCEPT ![t] = [ops |-> ops, cas |-> cas]]
  /\ trace_this_access' = [trace_this_access EXCEPT ![t] = traced]
  /\ operands' = [operands EXCEPT ![t] = {}]
  /\ stored' = [stored EXCEPT ![t] = TRUE]
  /\ line' = [line EXCEPT ![t] = {}]
  /\ pc' = [pc EXCEPT ![t] = "operands"]
  /\ UNCHANGED knobs

\* memory_access_read1_a, memory_access_read2_a and memory_access_write_a,
\* those the instruction has, each setting its own flag and address.
NoteOperands(t) ==
  /\ pc[t] = "operands"
  /\ operands' =
       [operands EXCEPT ![t] =
          IF trace_this_access[t]
          THEN instr[t].ops \cup {o \in @ : \A p \in instr[t].ops : o.role # p.role}
          ELSE @]
  /\ pc' = [pc EXCEPT ![t] = "acquire"]
  /\ UNCHANGED <<knobs, instr, stored, trace_this_access, index_lock_list, address_lock, line>>

\* Mutation of TracedAfter: the success of a compare-and-swap is always looked at.
TracedAfterAlways(t) == instr[t].cas

\* A compare-and-swap is traced after the instruction unless failed ones count
\* as writes too.
TracedAfter(t) == ~log_cas_fails /\ instr[t].cas

\* memory_access_acquire_locks_a
AcquireLocks(t) ==
  /\ pc[t] = "acquire"
  /\ LET list == IF trace_this_access[t] THEN LockList(operands[t]) ELSE <<>>
     IN /\ \A l \in ToSet(list) : address_lock[l] = Nobody
        /\ index_lock_list' = [index_lock_list EXCEPT ![t] = list]
        /\ address_lock' = [l \in DOMAIN address_lock |->
                              IF l \in ToSet(list) THEN t ELSE address_lock[l]]
  /\ pc' = [pc EXCEPT ![t] = IF TracedAfter(t) THEN "execute" ELSE "footer"]
  /\ UNCHANGED <<knobs, instr, stored, trace_this_access, operands, line>>

\* memory_access_footer_a: what the line says
TraceLine(t, ops) ==
  line' = [line EXCEPT ![t] = IF trace_this_access[t] THEN ops ELSE {}]

Footer(t) ==
  /\ pc[t] = "footer"
  /\ TraceLine(t, operands[t])
  /\ pc' = [pc EXCEPT ![t] = "execute"]
  /\ UNCHANGED <<knobs, instr, stored, trace_this_access, operands, index_lock_list, address_lock>>

\* The instruction itself.
Execute(t) ==
  /\ pc[t] = "execute"
  /\ \E success \in BOOLEAN :
       /\ success \/ instr[t].cas
       /\ stored' = [stored EXCEPT ![t] = success]
  /\ pc' = [pc EXCEPT ![t] = IF TracedAfter(t) THEN "cas_footer" ELSE "idle"]
  /\ UNCHANGED <<knobs, instr, trace_this_access, operands, index_lock_list, address_lock, line>>

\* memory_access_CAS_footer_a and memory_access_footer_a: a failed
\* compare-and-swap is not a write.
CASFooter(t) ==
  /\ pc[t] = "cas_footer"
  /\ operands' = [operands EXCEPT ![t] =
                    IF stored[t] THEN @ ELSE {o \in @ : o.role # "w"}]
  /\ TraceLine(t, operands'[t])
  /\ pc' = [pc EXCEPT ![t] = "idle"]
  /\ UNCHANGED <<knobs, instr, stored, trace_this_access, index_lock_list, address_lock>>

Next ==
  \E t \in Threads :
    \/ Release(t)
    \/ \E ops \in Instructions, cas, traced \in BOOLEAN : Header(t, ops, cas, traced)
    \/ NoteOperands(t)
    \/ AcquireLocks(t)
    \/ Footer(t)
    \/ Execute(t)
    \/ CASFooter(t)

Spec == Init /\ [][Next]_vars

(***************************************************************************)
(* Properties                                                              *)
(***************************************************************************)
TypeOK ==
  /\ num_locks \in 1 .. MaxKnob /\ block_size \in 1 .. MaxKnob
  /\ block_size = Power2(block_size_log)
  /\ pc \in [Threads -> {"idle", "operands", "acquire", "footer", "execute", "cas_footer"}]
  /\ \A t \in Threads : /\ operands[t] \subseteq Operands
                        /\ line[t] \subseteq Operands
                        /\ ToSet(index_lock_list[t]) \subseteq 0 .. num_locks - 1
  /\ address_lock \in [0 .. num_locks - 1 -> Threads \cup {Nobody}]

Bytes(ops) == UNION {o.address .. o.address + o.size - 1 : o \in ops}

\* Where a thread relies on its address locks: from the lock calls to the
\* instruction, and to its line when that comes after.
Protected == {"footer", "execute", "cas_footer"}

\* README, "Address locks": the locks an instruction takes cover the addresses
\* it accesses.  Two traced instructions that touch a common byte are never
\* under way together, whatever blocks they straddle.
ConflictsExclude ==
  \A t, u \in Threads :
    /\ t # u
    /\ pc[t] \in Protected /\ trace_this_access[t]
    /\ pc[u] \in Protected /\ trace_this_access[u]
    => Bytes(instr[t].ops) \cap Bytes(instr[u].ops) = {}

\* "Address locks by index order of the address_lock_bank": the list names
\* each lock once, in index order, and exactly the locks of the blocks that
\* the instruction touches; more would serialise what need not be.
LocksFitInstruction ==
  \A t \in Threads :
    /\ \A i, j \in DOMAIN index_lock_list[t] :
         i < j => index_lock_list[t][i] < index_lock_list[t][j]
    /\ pc[t] \in Protected /\ trace_this_access[t] =>
         ToSet(index_lock_list[t]) =
           {(b \div block_size) % num_locks : b \in Bytes(instr[t].ops)}

\* The line of an instruction tells what it did: its reads, and its write if
\* that happened (or if failed compare-and-swaps are to count, -c: what the code
\* does, while README says -c is for logging the successful ones only).
LineTellsAccess ==
  \A t \in Threads :
    pc[t] = "idle" /\ trace_this_access[t] =>
      line[t] = {o \in instr[t].ops : o.role = "w" => stored[t] \/ log_cas_fails}
=============================================================================

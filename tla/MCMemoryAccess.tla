--------------------------- MODULE MCMemoryAccess ---------------------------
(***************************************************************************)
(* A small instance of the instruction routines for TLC.                   *)
(***************************************************************************)
EXTENDS MemoryAccess, TLC, Bitwise

CONSTANTS t1, t2, nobody

TwoThreads == {t1, t2}

\* is_power_2 and the shift of lock_index are what the code computes bit by bit.
ASSUME PowersAssumption ==
  /\ \A num \in 0 .. 30 : is_power_2(num) <=> num > 0 /\ (num & (num - 1)) = 0
  /\ \A address \in 0 .. 64, n \in 0 .. 6 : address \div Power2(n) = shiftR(address, n)

\* The bound on the operands of one instruction holds for both threads together.
FewOperands == FoldFunction(+, 0, [t \in Threads |-> Cardinality(instr[t].ops)]) <= MaxOperands

\* The threads run the same code and nothing orders them.
Symmetry == Permutations(TwoThreads)
=============================================================================

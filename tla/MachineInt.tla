----------------------------- MODULE MachineInt ------------------------------
(***************************************************************************)
(* The int of the program: a product that does not fit wraps around.       *)
(***************************************************************************)
EXTENDS Integers

CONSTANT HalfRange   \* 2^63 in the program

ASSUME MachineIntAssumption == HalfRange \in Nat \ {0}

MachineInts == -HalfRange .. HalfRange - 1

\* What n becomes in an int.
Wrap(n) == ((n + HalfRange) % (2 * HalfRange)) - HalfRange
=============================================================================

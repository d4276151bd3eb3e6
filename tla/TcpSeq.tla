-------------------------------- MODULE TcpSeq --------------------------------
(***************************************************************************)
(* Sequence numbers as stream-tcp-private.h compares them: SEQ_LT and its  *)
(* relatives take the sign of a 32 bit difference, so that a number is     *)
(* before the half of the numbers that follow it.                          *)
(***************************************************************************)
EXTENDS Integers

CONSTANT Mod   \* the number of sequence numbers, 2^32 in the program

TcpAssumption == Mod \in Nat /\ Mod >= 8 /\ Mod % 4 = 0

Half == Mod \div 2

(* Mutant: not taken modulo 2^32.                                          *)
AddUnwrapped(a, n) == a + n

Add(a, n) == (a + n) % Mod
SEQ_LT(a, b) == (a - b) % Mod >= Half
SEQ_GT(a, b) == (a - b) % Mod \in 1 .. Half - 1
SEQ_LEQ(a, b) == a = b \/ SEQ_LT(a, b)

(* Mutant: compared as unsigned numbers.                                   *)
PlainGEQ(a, b) == a >= b

SEQ_GEQ(a, b) == a = b \/ SEQ_GT(a, b)
(* b - a, of numbers that are close.                                       *)
Distance(a, b) == (b - a) % Mod
===============================================================================

-------------------------------- MODULE Shorts --------------------------------
(***************************************************************************)
(* The value of a record (utils/storage.h) and of a Tx is a short: what  *)
(* is left of a number in it.                                              *)
(***************************************************************************)
EXTENDS Integers

CONSTANT HALF  \* half the values of a short, 32768 in the program

ASSUME HalfAssumption == HALF \in Nat \ {0}

Short(n) == ((n + HALF) % (2 * HALF)) - HALF

Values == -HALF .. HALF - 1
=============================================================================

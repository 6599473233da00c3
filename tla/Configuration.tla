---------------------------- MODULE Configuration ----------------------------
(***************************************************************************)
(* What several parts of the system take from utils/configuration.h.       *)
(***************************************************************************)
EXTENDS Integers

CONSTANT CLIENT_NUM  \* the clients of each slave

(* A slave is there for at least one client (configuration.h:18).          *)
ASSUME ClientNumAssumption == CLIENT_NUM \in Nat \ {0}
=============================================================================

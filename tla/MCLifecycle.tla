----------------------------- MODULE MCLifecycle -----------------------------
(***************************************************************************)
(* Instances of Lifecycle for TLC: one slave with all the clients.         *)
(***************************************************************************)
EXTENDS Lifecycle

CONSTANTS m, s1

MCHome == [c \in Clients |-> s1]
=============================================================================

--------------------------- MODULE MCTransactions ---------------------------
(* Transactions on small instances: two clients, on a slave each or on one.*)
EXTENDS Transactions

CONSTANTS s1, s2, c1, c2

MCHome == [c \in Clients |-> IF c = c2 /\ s2 \in Slaves THEN s2 ELSE s1]
=============================================================================

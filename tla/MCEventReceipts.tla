--------------------------- MODULE MCEventReceipts ---------------------------
(* Five events of two days and three contexts in three batches that overlap. *)
(* The first ones of the second day may be counted before it begins.         *)
EXTENDS EventReceipts

CONSTANTS c1, c2, c3, b1, b2, b3

MCTs == [e \in 1 .. 5 |-> CASE e <= 2 -> e [] e = 3 -> 3 [] OTHER -> 4]
MCContext == [e \in 1 .. 5 |-> CASE e \in {1, 3} -> c1 [] e \in {2, 4} -> c2 [] OTHER -> c3]
MCContent == [b \in {b1, b2, b3} |-> CASE b = b1 -> {1, 2, 3} [] b = b2 -> {2, 3, 5} [] OTHER -> {3, 4, 5}]
=============================================================================

---------------------------- MODULE MCWorkerLock ----------------------------
(* Two workers; two sources of the same endpoint, one with two events. *)
EXTENDS WorkerLock

MCSourceOf == [j \in Jobs |-> IF j \in {"a1", "a2"} THEN "a" ELSE "b"]
MCBusy == {<<"a", 0>>, <<"a", 1>>, <<"b", 0>>}
=============================================================================

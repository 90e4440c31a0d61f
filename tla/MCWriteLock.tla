---------------------------- MODULE MCWriteLock ----------------------------
(* Instances of WriteLock: two workers share process p1, a third runs in p2. *)
EXTENDS WriteLock

CONSTANTS w1, w2, w3, p1, p2

MCWorkers == {w1, w2, w3}
MCProcs == {p1, p2}
MCProc == [w \in MCWorkers |-> IF w = w3 THEN p2 ELSE p1]
=============================================================================

---------------------------- MODULE MCRedisLock ----------------------------
(***************************************************************************)
(* Small instances of RedisLock: two goroutines in one process and one in  *)
(* another.                                                                *)
(***************************************************************************)
EXTENDS RedisLock

CONSTANTS a1, a2, b1, pa, pb

Procs == {pa, pb}
Gos == {a1, a2, b1}
Homes == [g \in Gos |-> IF g = b1 THEN pb ELSE pa]
OneProc == {pa}
TwoGos == {a1, a2}
OneHome == [g \in TwoGos |-> pa]
=============================================================================

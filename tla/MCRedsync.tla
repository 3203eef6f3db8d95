----------------------------- MODULE MCRedsync -----------------------------
(***************************************************************************)
(* Small instances of Redsync for TLC: two mutexes, two pools (or one).    *)
(***************************************************************************)
EXTENDS Redsync, TLC

CONSTANTS m1, m2

TwoMutexes == {m1, m2}
Symmetric == Permutations(TwoMutexes)
=============================================================================

------------------------------- MODULE Lease -------------------------------
(***************************************************************************)
(* What a distributed lock with a time to live promises its callers: the   *)
(* lock is granted for a window of time, and is granted only while no      *)
(* window is open, not even an earlier one of the same caller.  A caller   *)
(* may give its lock up early; nobody else can end its window.             *)
(* Redsync is shown to implement this specification.                       *)
(***************************************************************************)
EXTENDS Integers

CONSTANTS Mutex,     \* the callers, one redsync.Mutex each
          MaxTime    \* the clock stops here

VARIABLES now,       \* the clock
          locked,    \* locked[m]: m was granted and has not given the lock up
          until      \* until[m]: the end of the window m was last granted

leaseVars == <<now, locked, until>>

\* m may rely on being alone.
Valid(m) == locked[m] /\ now < until[m]

LeaseInit ==
    /\ now = 0
    /\ locked = [m \in Mutex |-> FALSE]
    /\ until = [m \in Mutex |-> 0]

LeaseTick ==
    /\ now < MaxTime
    /\ now' = now + 1
    /\ UNCHANGED <<locked, until>>

\* The length of the window is the implementation's business.
Grant(m) ==
    /\ \A d \in Mutex : ~Valid(d)
    /\ locked' = [locked EXCEPT ![m] = TRUE]
    /\ until' = [until EXCEPT ![m] = until'[m]]
    /\ now < until'[m]
    /\ UNCHANGED now

GiveUp(m) ==
    /\ locked' = [locked EXCEPT ![m] = FALSE]
    /\ UNCHANGED <<now, until>>

LeaseNext == LeaseTick \/ \E m \in Mutex : Grant(m) \/ GiveUp(m)

LeaseSpec == LeaseInit /\ [][LeaseNext]_leaseVars
=============================================================================

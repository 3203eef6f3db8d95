----------------------------- MODULE RedisLock -----------------------------
(***************************************************************************)
(* components/lock/redis.go: a RedisLock puts a process-local sync.Mutex   *)
(* (sl) and a flag (isLock) in front of one redsync.Mutex (rl).  All the   *)
(* goroutines of a process share the RedisLock of a name, m.value of rl    *)
(* included; the processes compete for the key.                            *)
(*                                                                         *)
(* rl is modelled by what Redsync shows of it: Lock takes the key only     *)
(* when it is free and fails when it is taken (or Redis is unreachable),   *)
(* Unlock deletes the key only if it still holds m.value.  The key may     *)
(* expire at any time, a pending Unlock included; while its owner is       *)
(* between Lock and Unlock it expires only if Overrun.                     *)
(***************************************************************************)
EXTENDS Naturals, FiniteSets

CONSTANTS Proc,      \* the processes, one RedisLock each
          Go,        \* the goroutines
          Home,      \* Home[g]: the process of goroutine g
          None,      \* no value
          Overrun,   \* the key may expire before its owner calls Unlock
          MaxLocks   \* bound: Lock calls of one goroutine

ASSUME HomeAssumption == Home \in [Go -> Proc]
ASSUME OverrunAssumption == Overrun \in BOOLEAN /\ MaxLocks \in Nat

VARIABLES sl,      \* sl[p]: the sync.Mutex is locked
          isLock,  \* isLock[p]: the flag
          value,   \* value[p]: m.value of p's redsync.Mutex
          key,     \* the key in Redis
          count,   \* count[g]: Lock calls g made
          pc,      \* pc[g]: where goroutine g is
          robbed   \* history: who holds the lock, its key deleted by rl.Unlock

vars == <<sl, isLock, value, key, count, pc, robbed>>

LOCK_STAT == 1
UNLOCK_STAT == 0

Value == Go \X Nat

ASSUME NoneAssumption == None \notin Value

Locs == {"out", "wait", "flag", "select", "redis", "in",
         "failSl", "failFlag", "unSl", "unFlag", "unRedis"}

Move(g, from, to) == pc[g] = from /\ pc' = [pc EXCEPT ![g] = to]

\* Holding: from rl.Lock's success until Unlock is called.
Holds(g) == pc[g] = "in"

-----------------------------------------------------------------------------
(* RedisLock.Lock *)

LockCall(g) ==
    /\ count[g] < MaxLocks
    /\ count' = [count EXCEPT ![g] = @ + 1]
    /\ Move(g, "out", "wait")
    /\ UNCHANGED <<sl, isLock, value, key, robbed>>

\* Mutant: r.sl is not taken.
SlLockMutant(g) ==
    /\ sl' = [sl EXCEPT ![Home[g]] = TRUE]
    /\ Move(g, "wait", "flag")
    /\ UNCHANGED <<isLock, value, key, count, robbed>>

\* f() runs before the select: it waits for sl however long that takes.
SlLock(g) ==
    /\ ~sl[Home[g]]
    /\ sl' = [sl EXCEPT ![Home[g]] = TRUE]
    /\ Move(g, "wait", "flag")
    /\ UNCHANGED <<isLock, value, key, count, robbed>>

\* Mutant: an atomic add instead of the store.
SetFlagMutant(g) ==
    /\ isLock' = [isLock EXCEPT ![Home[g]] = @ + 1]
    /\ Move(g, "flag", "select")
    /\ UNCHANGED <<sl, value, key, count, robbed>>

SetFlag(g) ==
    /\ isLock' = [isLock EXCEPT ![Home[g]] = LOCK_STAT]
    /\ Move(g, "flag", "select")
    /\ UNCHANGED <<sl, value, key, count, robbed>>

\* Both channels may be ready: then select takes either case.
Select(g) ==
    /\ \/ Move(g, "select", "redis")
       \/ Move(g, "select", "failSl")   \* c.Done(): "try get lock timeout"
    /\ UNCHANGED <<sl, isLock, value, key, count, robbed>>

\* Mutant: the key is set even if it is there (no NX).
RlLockMutant(g) ==
    /\ \/ /\ key' = <<g, count[g]>>
          /\ value' = [value EXCEPT ![Home[g]] = <<g, count[g]>>]
          /\ robbed' = robbed \ {g}
          /\ Move(g, "redis", "in")
       \/ /\ Move(g, "redis", "failSl")
          /\ UNCHANGED <<value, key, robbed>>
    /\ UNCHANGED <<sl, isLock, count>>

RlLock(g) ==
    /\ \/ /\ key = None
          /\ key' = <<g, count[g]>>
          /\ value' = [value EXCEPT ![Home[g]] = <<g, count[g]>>]
          /\ robbed' = robbed \ {g}
          /\ Move(g, "redis", "in")
       \/ /\ Move(g, "redis", "failSl")
          /\ UNCHANGED <<value, key, robbed>>
    /\ UNCHANGED <<sl, isLock, count>>

\* Error and timeout: sl is released first, the flag is cleared after it.
FailSl(g) ==
    /\ sl' = [sl EXCEPT ![Home[g]] = FALSE]
    /\ Move(g, "failSl", "failFlag")
    /\ UNCHANGED <<isLock, value, key, count, robbed>>

FailFlag(g) ==
    /\ isLock' = [isLock EXCEPT ![Home[g]] = UNLOCK_STAT]
    /\ Move(g, "failFlag", "out")
    /\ UNCHANGED <<sl, value, key, count, robbed>>

-----------------------------------------------------------------------------
(* RedisLock.Unlock, called by the goroutine whose Lock returned nil *)

UnlockCall(g) ==
    /\ Move(g, "in", IF isLock[Home[g]] = LOCK_STAT THEN "unSl" ELSE "out")
    /\ UNCHANGED <<sl, isLock, value, key, count, robbed>>

UnlockSl(g) ==
    /\ sl' = [sl EXCEPT ![Home[g]] = FALSE]
    /\ Move(g, "unSl", "unFlag")
    /\ UNCHANGED <<isLock, value, key, count, robbed>>

UnlockFlag(g) ==
    /\ isLock' = [isLock EXCEPT ![Home[g]] = UNLOCK_STAT]
    /\ Move(g, "unFlag", "unRedis")
    /\ UNCHANGED <<sl, value, key, count, robbed>>

\* The goroutines that lose the key they hold when h's rl.Unlock deletes it.
Victims(h) == {g \in Go \ {h} : Holds(g) /\ key = <<g, count[g]>> /\ key' = None}

\* Mutant: the key is deleted without a look at its value.
RlUnlockMutant(g) ==
    /\ key' \in {key, None}
    /\ robbed' = robbed \cup Victims(g)
    /\ Move(g, "unRedis", "out")
    /\ UNCHANGED <<sl, isLock, value, count>>

\* rl.Unlock releases the value m.value has NOW; its answer is dropped, and
\* the request may be lost.
RlUnlock(g) ==
    /\ key' \in {key, IF key = value[Home[g]] THEN None ELSE key}
    /\ robbed' = robbed \cup Victims(g)
    /\ Move(g, "unRedis", "out")
    /\ UNCHANGED <<sl, isLock, value, count>>

-----------------------------------------------------------------------------
Expire ==
    /\ key # None
    /\ Overrun \/ ~Holds(key[1])
    /\ key' = None
    /\ UNCHANGED <<sl, isLock, value, count, pc, robbed>>

Init ==
    /\ sl = [p \in Proc |-> FALSE]
    /\ isLock = [p \in Proc |-> UNLOCK_STAT]
    /\ value = [p \in Proc |-> None]
    /\ key = None
    /\ count = [g \in Go |-> 0]
    /\ pc = [g \in Go |-> "out"]
    /\ robbed = {}

Step(g) ==
    \/ LockCall(g) \/ SlLock(g) \/ SetFlag(g) \/ Select(g) \/ RlLock(g)
    \/ FailSl(g) \/ FailFlag(g)
    \/ UnlockCall(g) \/ UnlockSl(g) \/ UnlockFlag(g) \/ RlUnlock(g)

Next == Expire \/ \E g \in Go : Step(g)

\* A runnable goroutine runs, the critical sections end, a goroutine that is
\* woken often enough gets sl (sync.Mutex has a starvation mode), and time
\* passes.  Nobody has to call Lock.
Fairness ==
    /\ WF_vars(Expire)
    /\ \A g \in Go :
          /\ WF_vars(Step(g) /\ pc[g] \notin {"out", "wait"})
          /\ SF_vars(SlLock(g))

Spec == Init /\ [][Next]_vars

FairSpec == Spec /\ Fairness

-----------------------------------------------------------------------------
(* Properties *)

\* Every variable has its type; the flag stays one of its two values.
TypeOK ==
    /\ sl \in [Proc -> BOOLEAN]
    /\ isLock \in [Proc -> {UNLOCK_STAT, LOCK_STAT}]
    /\ value \in [Proc -> Value \cup {None}]
    /\ key \in Value \cup {None}
    /\ count \in [Go -> 0 .. MaxLocks]
    /\ pc \in [Go -> Locs]
    /\ robbed \subseteq Go

\* Between Lock and Unlock a goroutine is alone, over all the processes ("A
\* Mutex is a distributed mutual exclusion lock.", redsync.v1/mutex.go:12;
\* redis.go:78-119).  The code does not keep it, see Exclusion; it does where
\* every process locks from one goroutine only (RedisLockProofs).
MutualExclusion == \A g, h \in Go : Holds(g) /\ Holds(h) => g = h

\* Two goroutines hold the lock only if one of them was robbed: an rl.Unlock
\* that had to wait until its key expired deleted the key of the next holder
\* of its own process, whose value m.value has become (redis.go:115-117).
\* No failed Lock, timeout or other Unlock lets a second one in.
Exclusion ==
    \A g, h \in Go : Holds(g) /\ Holds(h) /\ g # h => {g, h} \cap robbed # {}

\* A goroutine that is alone in its process's RedisLock really has sl: no
\* other goroutine's failure or Unlock releases it meanwhile, so r.sl.Unlock
\* is never called on an unlocked sync.Mutex, a fatal error in Go
\* (redis.go:97, 106, 115).
SlHeld ==
    \A g \in Go :
        pc[g] \in {"flag", "select", "redis", "in", "failSl", "unSl"} => sl[Home[g]]

\* A holder's key goes only by a pending rl.Unlock of a goroutine of its own
\* process: m.value is the value of the process, so what the other processes
\* do, late or not, leaves the key alone (redis.go:117).
OnlyOwnProcess ==
    [][\A g \in Go : Holds(g) /\ key = <<g, count[g]>> /\ key' # key
           => \E h \in Go : Home[h] = Home[g] /\ pc[h] = "unRedis" /\ pc'[h] = "out"]_vars

\* A Lock call gets past r.sl.Lock() sooner or later ("the longest time to
\* try to get a lock", redis.go:29; "try get lock timeout", redis.go:109).
LockReturns == \A g \in Go : pc[g] = "wait" ~> pc[g] # "wait"
=============================================================================

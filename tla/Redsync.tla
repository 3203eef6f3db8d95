------------------------------ MODULE Redsync ------------------------------
(***************************************************************************)
(* The distributed mutex of lib/gopkg.in/redsync.v1.  Every process that   *)
(* competes for one name owns a redsync.Mutex over the same Redis pools.   *)
(* Lock sets the key at every pool, one pool after the other, and holds    *)
(* the lock when a majority answered OK before the computed window ends;   *)
(* otherwise it releases the key everywhere and tries again with the SAME  *)
(* random value.  Unlock and Extend visit every pool with m.value.         *)
(*                                                                         *)
(* Redis itself is external: a pool keeps one key with a value and an      *)
(* expiry, and executes SET NX PX and the two scripts atomically.  A call  *)
(* may fail before it is executed, may be executed and lose its answer, or *)
(* (for the kinds in LateKinds) be executed after the caller gave up on    *)
(* it.  A pool's clock may expire a key up to Skew too early.              *)
(***************************************************************************)
EXTENDS Integers, FiniteSets

CONSTANTS Mutex,      \* the redsync.Mutex objects sharing one name
          NPools,     \* len(m.pools)
          Expiry,     \* m.expiry
          Drift,      \* m.expiry * m.factor
          Slack,      \* the 2 ms added to the window
          Skew,       \* how much too early a pool may expire a key
          Tries,      \* m.tries
          Delay,      \* m.delay
          LateKinds,  \* the kinds of request that may be executed late
          Calls,      \* the calls besides Lock that callers make
          NoVal,      \* the value of a key that was never set
          MaxTime,    \* bound: the clock stops here
          MaxValues,  \* bound: Lock calls of one Mutex
          MaxFlight   \* bound: requests awaiting late execution

Kinds == {"set", "release", "touch"}

ASSUME PoolsAssumption == NPools \in Nat \ {0}
ASSUME TimeAssumption ==
    /\ Expiry \in Nat /\ Drift \in Nat /\ Slack \in Nat /\ Skew \in Nat
    /\ Tries \in Nat \ {0} /\ Delay \in Nat
    /\ Skew <= Expiry
ASSUME LateAssumption == LateKinds \subseteq Kinds
ASSUME BoundAssumption ==
    MaxTime \in Nat /\ MaxValues \in Nat /\ MaxFlight \in Nat

VARIABLES now,     \* the clock every process and pool agrees on, up to Skew
          key,     \* key[p]: the lock's key at pool p
          flight,  \* requests whose caller gave up and that may still run
          seq,     \* seq[m]: how many values m generated
          value,   \* value[m]: m.value, as the number of the generated value
          until,   \* until[m]: m.until
          locked,  \* locked[m]: m's last Lock succeeded, no Unlock since
          pc,      \* pc[m]: where the call that holds m.nodem is
          try,     \* try[m]: the loop variable of Lock
          start,   \* start[m]: this try's start, or while asleep its earliest,
                   \* or the start of Extend
          at,      \* at[m]: the pool the loop over m.pools visits next
          oks      \* oks[m]: the pools that loop counted as ok

vars == <<now, key, flight, seq, value, until, locked, pc, try, start, at,
          oks>>

Pool == 1 .. NPools
Value == [own : Mutex, seq : Nat]
Val(m, s) == [own |-> m, seq |-> s]
Request == [kind : Kinds, pool : Pool, val : Value]
Absent == [val |-> NoVal, exp |-> 0]

\* Mutant: half of the pools instead of more than half.
QuorumMutant == NPools \div 2

Quorum == NPools \div 2 + 1

\* What m may rely on: the caller holds the lock and its window is open.
Valid(m) == locked[m] /\ now < until[m]

-----------------------------------------------------------------------------
(* Redis: what a pool does with a request. *)

Live(p) == now < key[p].exp

Owns(p, v) == Live(p) /\ key[p].val = v

Life == (Expiry - Skew) .. Expiry

Fresh(v) == {[val |-> v, exp |-> now + l] : l \in Life}

\* Mutant: the delete script without its comparison.
EffectMutant(r) ==
    CASE r.kind = "set"     -> IF Live(r.pool) THEN {key[r.pool]} ELSE Fresh(r.val)
      [] r.kind = "release" -> {Absent}
      [] r.kind = "touch"   -> IF Owns(r.pool, r.val) THEN Fresh(r.val) ELSE {key[r.pool]}

\* The states the pool's key may be in once the request was executed.
Effect(r) ==
    CASE r.kind = "set"     -> IF Live(r.pool) THEN {key[r.pool]} ELSE Fresh(r.val)
      [] r.kind = "release" -> {IF Owns(r.pool, r.val) THEN Absent ELSE key[r.pool]}
      [] r.kind = "touch"   -> IF Owns(r.pool, r.val) THEN Fresh(r.val) ELSE {key[r.pool]}

\* Mutant: touch does not tell "ERR" from the other answers.
CountedMutant(r) == r.kind = "set" => ~Live(r.pool)

\* What acquire, release and touch make of the answer.  release compares an
\* interface holding an int64 with the constant 0, an int: every answer
\* differs from it, so every answer counts as a deletion.
Counted(r) ==
    CASE r.kind = "set"     -> ~Live(r.pool)
      [] r.kind = "release" -> TRUE
      [] r.kind = "touch"   -> Owns(r.pool, r.val)

Executed(r) == key' \in {[key EXCEPT ![r.pool] = k] : k \in Effect(r)}

\* One round of m's loop over m.pools, with value v.  Lock drops what release
\* answers.
Visit(m, kind, v) ==
    LET r == [kind |-> kind, pool |-> at[m], val |-> v] IN
    /\ at[m] \in Pool
    /\ at' = [at EXCEPT ![m] = @ + 1]
    /\ \/ /\ Executed(r)
          /\ \/ oks' = [oks EXCEPT ![m] = IF pc[m] # "release" /\ Counted(r)
                                               THEN @ \cup {r.pool} ELSE @]
             \/ oks' = oks
          /\ UNCHANGED flight
       \/ /\ \/ flight' = flight
             \/ /\ kind \in LateKinds
                /\ Cardinality(flight) < MaxFlight
                /\ flight' = flight \cup {r}
          /\ UNCHANGED <<key, oks>>
    /\ UNCHANGED <<now, seq, value, until, locked, pc, try, start>>

\* A request its caller gave up on reaches the pool after all.
LateExecution ==
    \E r \in flight :
        /\ Executed(r)
        /\ flight' = flight \ {r}
        /\ UNCHANGED <<now, seq, value, until, locked, pc, try, start, at, oks>>

-----------------------------------------------------------------------------
(* Mutex.Lock *)

Goto(m, l) ==
    /\ pc' = [pc EXCEPT ![m] = l]
    /\ at' = [at EXCEPT ![m] = 1]
    /\ oks' = [oks EXCEPT ![m] = {}]

\* Lock returns and its variables go out of scope.
Forget(m) ==
    /\ Goto(m, "idle")
    /\ try' = [try EXCEPT ![m] = 0]
    /\ start' = [start EXCEPT ![m] = 0]

\* Lock enters with a fresh value, shared by all its tries.
LockCall(m) ==
    /\ pc[m] = "idle"
    /\ seq[m] < MaxValues
    /\ seq' = [seq EXCEPT ![m] = @ + 1]
    /\ try' = [try EXCEPT ![m] = 0]
    /\ start' = [start EXCEPT ![m] = now]
    /\ Goto(m, "acquire")
    /\ UNCHANGED <<now, key, flight, value, until, locked>>

AcquirePool(m) == pc[m] = "acquire" /\ Visit(m, "set", Val(m, seq[m]))

\* Mutant: the time spent on the pools is not taken off the window.
WindowMutant(m) == now + (Expiry - Drift + Slack)

Window(m) == now + (Expiry - (now - start[m]) - Drift + Slack)

\* Mutant: the window is not checked once it is computed.
WonMutant(m) == Cardinality(oks[m]) >= Quorum

Won(m) == Cardinality(oks[m]) >= Quorum /\ now < Window(m)

LockDone(m) == pc[m] = "acquire" /\ at[m] > NPools

LockWon(m) ==
    /\ LockDone(m)
    /\ Won(m)
    /\ value' = [value EXCEPT ![m] = seq[m]]
    /\ until' = [until EXCEPT ![m] = Window(m)]
    /\ locked' = [locked EXCEPT ![m] = TRUE]
    /\ Forget(m)
    /\ UNCHANGED <<now, key, flight, seq>>

LockLost(m) ==
    /\ LockDone(m)
    /\ ~Won(m)
    /\ Goto(m, "release")
    /\ UNCHANGED <<now, key, flight, seq, value, until, locked, try, start>>

ReleasePool(m) == pc[m] = "release" /\ Visit(m, "release", Val(m, seq[m]))

\* Mutant: the loop runs once more than m.tries.
TryFailedMutant(m) ==
    /\ pc[m] = "release"
    /\ at[m] > NPools
    /\ IF try[m] < Tries
       THEN /\ Goto(m, "sleep")
            /\ try' = [try EXCEPT ![m] = @ + 1]
            /\ start' = [start EXCEPT ![m] = now + Delay]
       ELSE Forget(m)
    /\ UNCHANGED <<now, key, flight, seq, value, until, locked>>

\* The try is over: sleep before the next one, or return ErrFailed.
TryFailed(m) ==
    /\ pc[m] = "release"
    /\ at[m] > NPools
    /\ IF try[m] + 1 < Tries
       THEN /\ Goto(m, "sleep")
            /\ try' = [try EXCEPT ![m] = @ + 1]
            /\ start' = [start EXCEPT ![m] = now + Delay]
       ELSE Forget(m)
    /\ UNCHANGED <<now, key, flight, seq, value, until, locked>>

NextTry(m) ==
    /\ pc[m] = "sleep"
    /\ now >= start[m]
    /\ start' = [start EXCEPT ![m] = now]
    /\ Goto(m, "acquire")
    /\ UNCHANGED <<now, key, flight, seq, value, until, locked, try>>

-----------------------------------------------------------------------------
(* Mutex.Unlock and Mutex.Extend *)

\* Once it calls Unlock the caller no longer relies on the lock.
UnlockCall(m) ==
    /\ pc[m] = "idle" /\ "unlock" \in Calls
    /\ locked' = [locked EXCEPT ![m] = FALSE]
    /\ Goto(m, "unlock")
    /\ UNCHANGED <<now, key, flight, seq, value, until, try, start>>

UnlockPool(m) == pc[m] = "unlock" /\ Visit(m, "release", Val(m, value[m]))

\* start is noted for ExtendHolds only; the code does not look at the clock.
ExtendCall(m) ==
    /\ pc[m] = "idle" /\ "extend" \in Calls
    /\ start' = [start EXCEPT ![m] = now]
    /\ Goto(m, "extend")
    /\ UNCHANGED <<now, key, flight, seq, value, until, locked, try>>

ExtendPool(m) == pc[m] = "extend" /\ Visit(m, "touch", Val(m, value[m]))

\* Both return n >= m.quorum; Extend leaves m.until as it was.
Return(m) ==
    /\ pc[m] \in {"unlock", "extend"}
    /\ at[m] > NPools
    /\ Forget(m)
    /\ UNCHANGED <<now, key, flight, seq, value, until, locked>>

Answer(m) == Cardinality(oks[m]) >= Quorum

-----------------------------------------------------------------------------
\* Time passes; the pools drop the keys that expire.
Tick ==
    /\ now < MaxTime
    /\ now' = now + 1
    /\ key' = [p \in Pool |-> IF key[p].exp <= now + 1 THEN Absent ELSE key[p]]
    /\ UNCHANGED <<flight, seq, value, until, locked, pc, try, start, at, oks>>

Init ==
    /\ now = 0
    /\ key = [p \in Pool |-> Absent]
    /\ flight = {}
    /\ seq = [m \in Mutex |-> 0]
    /\ value = [m \in Mutex |-> 0]
    /\ until = [m \in Mutex |-> 0]
    /\ locked = [m \in Mutex |-> FALSE]
    /\ pc = [m \in Mutex |-> "idle"]
    /\ try = [m \in Mutex |-> 0]
    /\ start = [m \in Mutex |-> 0]
    /\ at = [m \in Mutex |-> 1]
    /\ oks = [m \in Mutex |-> {}]

MutexStep(m) ==
    \/ LockCall(m) \/ AcquirePool(m) \/ LockWon(m) \/ LockLost(m)
    \/ ReleasePool(m) \/ TryFailed(m) \/ NextTry(m)
    \/ UnlockCall(m) \/ UnlockPool(m)
    \/ ExtendCall(m) \/ ExtendPool(m) \/ Return(m)

Next == Tick \/ LateExecution \/ \E m \in Mutex : MutexStep(m)

Spec == Init /\ [][Next]_vars

-----------------------------------------------------------------------------
(* Properties *)

\* Every variable has its type; a Lock call makes at most m.tries tries and
\* its loops stay within m.pools (mutex.go:42-66).
TypeOK ==
    /\ now \in Nat
    /\ key \in [Pool -> [val : Value \cup {NoVal}, exp : Nat]]
    /\ flight \subseteq Request
    /\ seq \in [Mutex -> Nat]
    /\ value \in [Mutex -> Nat]
    /\ until \in [Mutex -> Int]
    /\ locked \in [Mutex -> BOOLEAN]
    /\ pc \in [Mutex -> {"idle", "acquire", "release", "sleep", "unlock", "extend"}]
    /\ try \in [Mutex -> 0 .. Tries - 1]
    /\ start \in [Mutex -> Nat]
    /\ at \in [Mutex -> 1 .. NPools + 1]
    /\ oks \in [Mutex -> SUBSET Pool]

\* No two mutexes of one name have an open window at the same time, whatever
\* calls fail, lose their answer or run late, and however long they take
\* (Lock, mutex.go:33-69).
MutualExclusion == \A m, d \in Mutex : Valid(m) /\ Valid(d) => m = d

\* As long as a window is open a majority of the pools still holds the key
\* with that Lock's value: no expiry, failed try, Unlock or Extend of any
\* mutex takes it away (mutex.go:57-58).
QuorumHeld ==
    \A m \in Mutex :
        Valid(m) =>
            Cardinality({p \in Pool : Owns(p, Val(m, value[m]))}) >= Quorum

\* A key that has not expired is changed only by a request of the mutex that
\* set it: a step of another mutex leaves it alone (the GET comparison of the
\* scripts, mutex.go:117-138).
OnlyOwnerChanges ==
    [][\A p \in Pool, m \in Mutex :
          Live(p) /\ at'[m] # at[m] /\ key[p].val.own # m => key'[p] = key[p]]_vars

\* Redsync implements the abstract lease: Lock grants only while no window is
\* open and only a window that is still open when Lock returns
\* (mutex.go:57-62).
LeaseAbstract == INSTANCE Lease
LeaseRefinement == LeaseAbstract!LeaseSpec

\* When Extend answers true, a majority of the pools holds the key with
\* m.value, unless Extend took longer than a key lives ("returns the status
\* of expiry extension", mutex.go:86-99): neither an expired key nor another
\* mutex's counts as extended.
ExtendHolds ==
    \A m \in Mutex :
        /\ pc[m] = "extend" /\ at[m] > NPools /\ Answer(m)
        /\ now < start[m] + Expiry - Skew
        => Cardinality({p \in Pool : Owns(p, Val(m, value[m]))}) >= Quorum
=============================================================================

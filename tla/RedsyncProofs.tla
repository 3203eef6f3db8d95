--------------------------- MODULE RedsyncProofs ---------------------------
(***************************************************************************)
(* TLAPS proofs about Redsync, for every number of mutexes and pools and   *)
(* every choice of times.  The safety theorems need what Safe states: the  *)
(* drift margin pays for the pools' clock error and for the slack that     *)
(* Lock adds, and no release is executed after its caller gave up on it.   *)
(***************************************************************************)
EXTENDS Redsync, FiniteSetTheorems, TLAPS

Safe == Skew + Slack <= Drift /\ "release" \notin LateKinds

-----------------------------------------------------------------------------
(* What a pool does with a request. *)

\* A pool's key keeps its type whatever request it executes.
LEMMA EffectType ==
    ASSUME TypeOK, NEW r \in Request, NEW k \in Effect(r)
    PROVE  k \in [val : Value \cup {NoVal}, exp : Nat]
<1>1. \A l \in Life : now + l \in Nat
  BY TimeAssumption DEF Life, TypeOK
<1>2. \A e \in Fresh(r.val) : e \in [val : Value \cup {NoVal}, exp : Nat]
  BY <1>1 DEF Fresh, Request
<1>3. /\ r.pool \in Pool
      /\ key[r.pool] \in [val : Value \cup {NoVal}, exp : Nat]
      /\ Absent \in [val : Value \cup {NoVal}, exp : Nat]
  BY DEF TypeOK, Request, Absent
<1>4. r.kind \in Kinds
  BY DEF Request
<1>5. CASE r.kind = "set"
  BY <1>2, <1>3, <1>5 DEF Effect
<1>6. CASE r.kind = "release"
  BY <1>3, <1>6 DEF Effect
<1>7. CASE r.kind = "touch"
  BY <1>2, <1>3, <1>7 DEF Effect
<1> QED
  BY <1>4, <1>5, <1>6, <1>7 DEF Kinds

\* One round of a loop keeps every variable's type.
LEMMA VisitType ==
    ASSUME TypeOK, NEW m \in Mutex, NEW kind \in Kinds, NEW v \in Value,
           Visit(m, kind, v)
    PROVE  TypeOK'
<1> DEFINE r == [kind |-> kind, pool |-> at[m], val |-> v]
<1>1. r \in Request /\ r.pool = at[m] /\ at[m] \in Pool
  BY DEF Visit, Request
<1>2. at' \in [Mutex -> 1 .. NPools + 1]
  BY <1>1, PoolsAssumption DEF Visit, TypeOK, Pool
<1>3. key' \in [Pool -> [val : Value \cup {NoVal}, exp : Nat]]
  <2>1. CASE key' = key
    BY <2>1 DEF TypeOK
  <2>2. CASE Executed(r)
    <3>1. PICK k \in Effect(r) : key' = [key EXCEPT ![r.pool] = k]
      BY <2>2 DEF Executed
    <3> QED
      BY <3>1, <1>1, EffectType DEF TypeOK
  <2> QED
    BY <2>1, <2>2 DEF Visit
<1>4. oks' \in [Mutex -> SUBSET Pool]
  BY <1>1 DEF Visit, TypeOK
<1>5. flight' \subseteq Request
  BY <1>1 DEF Visit, TypeOK
<1> QED
  BY <1>2, <1>3, <1>4, <1>5 DEF Visit, TypeOK

\* The calls that start and end a loop keep every variable's type.
LEMMA GotoType ==
    ASSUME TypeOK, NEW m \in Mutex,
           NEW l \in {"idle", "acquire", "release", "sleep", "unlock", "extend"},
           Goto(m, l)
    PROVE  /\ pc' \in [Mutex -> {"idle", "acquire", "release", "sleep", "unlock", "extend"}]
           /\ at' \in [Mutex -> 1 .. NPools + 1]
           /\ oks' \in [Mutex -> SUBSET Pool]
<1>1. 1 \in 1 .. NPools + 1
  BY PoolsAssumption
<1> QED
  BY <1>1 DEF Goto, TypeOK

-----------------------------------------------------------------------------
(* Type correctness *)

\* Every step keeps the types; in particular Lock never makes more than
\* m.tries tries and no loop leaves m.pools.
LEMMA TypeStep == TypeOK /\ [Next]_vars => TypeOK'
<1> SUFFICES ASSUME TypeOK, [Next]_vars PROVE TypeOK'
  OBVIOUS
<1> USE TimeAssumption, PoolsAssumption
<1>1. CASE Tick
  <2>1. key' \in [Pool -> [val : Value \cup {NoVal}, exp : Nat]]
    BY <1>1 DEF Tick, TypeOK, Absent
  <2> QED
    BY <1>1, <2>1 DEF Tick, TypeOK
<1>2. CASE LateExecution
  <2>1. PICK r \in flight : Executed(r) /\ flight' = flight \ {r}
    BY <1>2 DEF LateExecution
  <2>2. PICK k \in Effect(r) : key' = [key EXCEPT ![r.pool] = k]
    BY <2>1 DEF Executed
  <2>3. key' \in [Pool -> [val : Value \cup {NoVal}, exp : Nat]]
    BY <2>1, <2>2, EffectType DEF TypeOK, Request
  <2> QED
    BY <1>2, <2>1, <2>3 DEF LateExecution, TypeOK
<1>3. ASSUME NEW m \in Mutex, MutexStep(m) PROVE TypeOK'
  <2>1. Val(m, seq[m]) \in Value /\ Val(m, value[m]) \in Value
    BY DEF Val, Value, TypeOK
  <2>2. CASE LockCall(m)
    BY <2>2, GotoType DEF LockCall, TypeOK
  <2>3. CASE AcquirePool(m)
    BY <2>1, <2>3, VisitType DEF AcquirePool, Kinds
  <2>4. CASE LockWon(m)
    <3>1. Window(m) \in Int
      BY DEF Window, TypeOK
    <3> QED
      BY <2>4, <3>1, GotoType DEF LockWon, Forget, TypeOK
  <2>5. CASE LockLost(m)
    BY <2>5, GotoType DEF LockLost, TypeOK
  <2>6. CASE ReleasePool(m)
    BY <2>1, <2>6, VisitType DEF ReleasePool, Kinds
  <2>7. CASE TryFailed(m)
    <3>1. /\ try' \in [Mutex -> 0 .. Tries - 1]
          /\ start' \in [Mutex -> Nat]
      BY <2>7 DEF TryFailed, Forget, TypeOK
    <3> QED
      BY <2>7, <3>1, GotoType DEF TryFailed, Forget, TypeOK
  <2>8. CASE NextTry(m)
    BY <2>8, GotoType DEF NextTry, TypeOK
  <2>9. CASE UnlockCall(m)
    BY <2>9, GotoType DEF UnlockCall, TypeOK
  <2>10. CASE UnlockPool(m)
    BY <2>1, <2>10, VisitType DEF UnlockPool, Kinds
  <2>11. CASE ExtendCall(m)
    BY <2>11, GotoType DEF ExtendCall, TypeOK
  <2>12. CASE ExtendPool(m)
    BY <2>1, <2>12, VisitType DEF ExtendPool, Kinds
  <2>13. CASE Return(m)
    BY <2>13, GotoType DEF Return, Forget, TypeOK
  <2> QED
    BY <1>3, <2>2, <2>3, <2>4, <2>5, <2>6, <2>7, <2>8, <2>9, <2>10, <2>11, <2>12, <2>13
       DEF MutexStep
<1>4. CASE UNCHANGED vars
  BY <1>4 DEF vars, TypeOK
<1> QED
  BY <1>1, <1>2, <1>3, <1>4 DEF Next

\* Every reachable state is well typed.
THEOREM TypeCorrect == Spec => []TypeOK
<1>1. Init => TypeOK
  BY TimeAssumption, PoolsAssumption DEF Init, TypeOK, Absent
<1> QED
  BY <1>1, TypeStep, PTL DEF Spec

-----------------------------------------------------------------------------
(* The inductive invariant *)

\* Until t, pool p keeps the key with value v.
Covered(p, v, t) == now < t => key[p].val = v /\ key[p].exp >= t

\* A try that is under way: every pool it counted keeps the key for a whole
\* expiry, less the clock error, from the start of the try.
TryCovered ==
    \A m \in Mutex :
        pc[m] = "acquire" =>
            /\ start[m] <= now
            /\ \A p \in oks[m] : Covered(p, Val(m, seq[m]), start[m] + Expiry - Skew)

Majority(S) == S \subseteq Pool /\ Cardinality(S) >= Quorum

\* A lock that was won: some majority keeps the key until the window ends.
LockCovered ==
    \A m \in Mutex :
        locked[m] =>
            /\ until[m] <= now + Expiry - Skew
            /\ \E S : Majority(S) /\ \A p \in S : Covered(p, Val(m, value[m]), until[m])

\* The value of a Lock call under way was never won with before, and the
\* value Unlock releases is not in use.
ValuesFresh ==
    \A m \in Mutex :
        /\ value[m] <= seq[m]
        /\ pc[m] \in {"acquire", "release", "sleep"} => value[m] < seq[m]
        /\ pc[m] = "unlock" => ~locked[m]

NoLateRelease == \A r \in flight : r.kind # "release"

IndInv == TypeOK /\ TryCovered /\ LockCovered /\ ValuesFresh /\ NoLateRelease

-----------------------------------------------------------------------------
(* Lemmas *)

\* Any two majorities of the pools share a pool.
LEMMA MajoritiesMeet ==
    ASSUME NEW S, NEW T, Majority(S), Majority(T)
    PROVE  \E p \in S : p \in T
<1>1. IsFiniteSet(Pool) /\ Cardinality(Pool) = NPools
  BY FS_Interval, PoolsAssumption DEF Pool
<1>2. Cardinality(S) \in Nat /\ Cardinality(T) \in Nat
  BY <1>1, FS_Subset, FS_CardinalityType DEF Majority
<1>3. Cardinality(S) + Cardinality(T) > Cardinality(Pool)
  BY <1>1, <1>2, PoolsAssumption DEF Majority, Quorum
<1> QED
  BY <1>1, <1>3, FS_MajoritiesIntersect DEF Majority

\* A set of pools that contains a majority is one.
LEMMA MajorityGrows ==
    ASSUME NEW S, Majority(S), NEW T \in SUBSET Pool, S \subseteq T
    PROVE  Cardinality(T) >= Quorum
<1>1. IsFiniteSet(Pool)
  BY FS_Interval, PoolsAssumption DEF Pool
<1>2. IsFiniteSet(T)
  BY <1>1, FS_Subset
<1>3. IsFiniteSet(S) /\ Cardinality(S) <= Cardinality(T)
  BY <1>2, FS_Subset
<1>4. Cardinality(S) \in Nat /\ Cardinality(T) \in Nat /\ Quorum \in Nat
  BY <1>2, <1>3, FS_CardinalityType, PoolsAssumption DEF Quorum
<1> QED
  BY <1>3, <1>4 DEF Majority

\* Executing a request leaves a covered pool covered, unless it releases the
\* very value that covers it.
LEMMA EffectCovers ==
    ASSUME TypeOK, NEW r \in Request, Executed(r), now' = now,
           NEW p \in Pool, NEW v, NEW t \in Int, Covered(p, v, t),
           t <= now + Expiry - Skew,
           r.kind = "release" => r.val # v
    PROVE  Covered(p, v, t)'
<1>1. PICK k \in Effect(r) : key' = [key EXCEPT ![r.pool] = k]
  BY DEF Executed
<1>2. SUFFICES ASSUME now < t, r.pool = p
               PROVE  k.val = v /\ k.exp >= t
  BY <1>1 DEF Covered, TypeOK, Request
<1>3. /\ key[p].val = v /\ key[p].exp >= t /\ Live(p)
      /\ key[p].exp \in Nat /\ now \in Nat
  BY <1>2 DEF Covered, Live, TypeOK
<1>4. \A e \in Fresh(r.val) : e.val = r.val /\ e.exp >= t
  BY <1>3, TimeAssumption DEF Fresh, Life
<1>5. CASE r.kind = "set"
  BY <1>2, <1>3, <1>5 DEF Effect
<1>6. CASE r.kind = "release"
  BY <1>2, <1>3, <1>6 DEF Effect, Owns
<1>7. CASE r.kind = "touch"
  BY <1>2, <1>3, <1>4, <1>7 DEF Effect, Owns
<1> QED
  BY <1>5, <1>6, <1>7 DEF Request, Kinds

\* A pool that accepted SET NX is covered for an expiry less the clock error.
LEMMA SetCovers ==
    ASSUME TypeOK, NEW r \in Request, r.kind = "set", Executed(r), Counted(r),
           now' = now, NEW t \in Int, t <= now + Expiry - Skew
    PROVE  Covered(r.pool, r.val, t)'
<1>1. PICK k \in Effect(r) : key' = [key EXCEPT ![r.pool] = k]
  BY DEF Executed
<1>2. k \in Fresh(r.val)
  BY <1>1 DEF Effect, Counted
<1>3. k.val = r.val /\ k.exp >= t
  BY <1>2, TimeAssumption DEF Fresh, Life, TypeOK
<1> QED
  BY <1>1, <1>3 DEF Covered, TypeOK, Request

\* The passing of time uncovers no pool.
LEMMA TickCovers ==
    ASSUME TypeOK, Tick, NEW p \in Pool, NEW v, NEW t \in Int, Covered(p, v, t)
    PROVE  Covered(p, v, t)'
BY DEF Tick, Covered, TypeOK

\* A request that releases no value in use leaves every lock and every try
\* covered.
LEMMA RequestCovers ==
    ASSUME IndInv, NEW r \in Request, Executed(r),
           UNCHANGED <<now, seq, value, until, locked, pc, start>>,
           r.kind = "release" =>
               \A d \in Mutex : /\ pc[d] = "acquire" => r.val # Val(d, seq[d])
                                /\ locked[d] => r.val # Val(d, value[d])
    PROVE  /\ LockCovered'
           /\ \A d \in Mutex : pc[d] = "acquire" =>
                 \A p \in oks[d] : Covered(p, Val(d, seq[d]), start[d] + Expiry - Skew)'
<1> USE DEF IndInv
<1>1. ASSUME NEW d \in Mutex, locked[d]
      PROVE  /\ until'[d] <= now' + Expiry - Skew
             /\ \E S : Majority(S) /\ \A p \in S : Covered(p, Val(d, value[d]), until[d])'
  <2>1. PICK S : Majority(S) /\ \A p \in S : Covered(p, Val(d, value[d]), until[d])
    BY <1>1 DEF LockCovered
  <2>2. until[d] \in Int /\ until[d] <= now + Expiry - Skew
    BY <1>1 DEF LockCovered, TypeOK
  <2>3. ASSUME NEW p \in S PROVE Covered(p, Val(d, value[d]), until[d])'
    <3> DEFINE v == Val(d, value[d])
               t == until[d]
    <3>1. /\ Covered(p, v, t) /\ p \in Pool
          /\ t \in Int /\ t <= now + Expiry - Skew
      BY <2>1, <2>2, <2>3 DEF Majority
    <3>2. r.kind = "release" => r.val # v
      BY <1>1
    <3> SUFFICES ASSUME NEW w, w = v, NEW u \in Int, u = t PROVE Covered(p, w, u)'
      BY <3>1 DEF Covered, Val
    <3> HIDE DEF v, t
    <3> QED
      BY <3>1, <3>2, EffectCovers
  <2> QED
    BY <2>1, <2>2, <2>3
<1>2. ASSUME NEW d \in Mutex, pc[d] = "acquire", NEW p \in oks[d]
      PROVE  Covered(p, Val(d, seq[d]), start[d] + Expiry - Skew)'
  <2> DEFINE v == Val(d, seq[d])
             t == start[d] + Expiry - Skew
  <2>1. /\ Covered(p, v, t) /\ p \in Pool
        /\ t \in Int /\ t <= now + Expiry - Skew
    BY <1>2, TimeAssumption DEF TryCovered, TypeOK
  <2>2. r.kind = "release" => r.val # v
    BY <1>2
  <2> SUFFICES ASSUME NEW w, w = v, NEW u \in Int, u = t PROVE Covered(p, w, u)'
    BY <2>1 DEF Covered, Val
  <2> HIDE DEF v, t
  <2> QED
    BY <2>1, <2>2, EffectCovers
<1> QED
  BY <1>1, <1>2 DEF LockCovered

-----------------------------------------------------------------------------
(* Every step keeps the invariant *)

\* A step that touches no key and no covered variable keeps what is covered.
LEMMA FrameCovers ==
    ASSUME IndInv, UNCHANGED <<now, key, value, until, locked>>
    PROVE  LockCovered'
BY DEF IndInv, LockCovered, Covered

\* A round of a loop keeps the invariant when it releases no value in use.
LEMMA VisitStep ==
    ASSUME IndInv, Safe, NEW m \in Mutex, NEW kind \in Kinds, NEW v \in Value,
           Visit(m, kind, v),
           pc[m] = "acquire" => kind = "set" /\ v = Val(m, seq[m]),
           kind = "release" =>
               \A d \in Mutex : /\ pc[d] = "acquire" => v # Val(d, seq[d])
                                /\ locked[d] => v # Val(d, value[d])
    PROVE  IndInv'
<1> USE DEF IndInv
<1> DEFINE r == [kind |-> kind, pool |-> at[m], val |-> v]
<1>1. /\ r \in Request /\ r.pool = at[m] /\ at[m] \in Pool
      /\ r.kind = kind /\ r.val = v
  BY DEF Visit, Request
<1>2. UNCHANGED <<now, seq, value, until, locked, pc, try, start>>
  BY DEF Visit
<1>3. TypeOK'
  BY VisitType
<1>4. ValuesFresh'
  BY <1>2 DEF ValuesFresh
<1>5. NoLateRelease'
  BY <1>1 DEF Visit, NoLateRelease, Safe
<1>6. CASE Executed(r)
  <2>1. /\ LockCovered'
        /\ \A d \in Mutex : pc[d] = "acquire" =>
              \A p \in oks[d] : Covered(p, Val(d, seq[d]), start[d] + Expiry - Skew)'
    BY <1>1, <1>2, <1>6, RequestCovers
  <2>2. ASSUME NEW d \in Mutex, pc[d] = "acquire", NEW p \in oks'[d]
        PROVE  Covered(p, Val(d, seq[d]), start[d] + Expiry - Skew)'
    <3>1. CASE p \in oks[d]
      BY <2>1, <2>2, <3>1
    <3>2. CASE p \notin oks[d]
      <4>1. d = m /\ p = r.pool /\ Counted(r)
        BY <1>1, <2>2, <3>2 DEF Visit, TypeOK
      <4>2. r.kind = "set" /\ r.val = Val(d, seq[d])
        BY <1>1, <2>2, <4>1
      <4> DEFINE t == start[d] + Expiry - Skew
      <4>3. t \in Int /\ t <= now + Expiry - Skew
        BY <2>2, TimeAssumption DEF TryCovered, TypeOK
      <4> SUFFICES ASSUME NEW w, w = r.val, NEW u \in Int, u = t
                   PROVE  Covered(p, w, u)'
        BY <1>2, <4>2, <4>3 DEF Covered, Val
      <4> HIDE DEF t, r
      <4> QED
        BY <1>1, <1>2, <1>6, <4>1, <4>2, <4>3, SetCovers
    <3> QED
      BY <3>1, <3>2
  <2>3. TryCovered'
    BY <1>2, <2>2 DEF TryCovered
  <2> QED
    BY <1>3, <1>4, <1>5, <2>1, <2>3
<1>7. CASE UNCHANGED <<key, oks>>
  <2>1. TryCovered'
    BY <1>2, <1>7 DEF TryCovered, Covered
  <2> QED
    BY <1>2, <1>3, <1>4, <1>5, <1>7, <2>1, FrameCovers
<1> QED
  BY <1>6, <1>7 DEF Visit

\* A step of m that starts or ends a loop leaves the tries of the others
\* covered, and m's own as long as it begins with no pool counted.
LEMMA GotoCovers ==
    ASSUME IndInv, NEW m \in Mutex, NEW l, Goto(m, l), UNCHANGED <<now, key>>,
           \A d \in Mutex \ {m} : seq'[d] = seq[d] /\ start'[d] = start[d],
           l = "acquire" => start'[m] <= now
    PROVE  TryCovered'
<1> USE DEF IndInv
<1> SUFFICES ASSUME NEW d \in Mutex, pc'[d] = "acquire"
             PROVE  /\ start'[d] <= now'
                    /\ \A p \in oks'[d] :
                          Covered(p, Val(d, seq[d]), start[d] + Expiry - Skew)'
  BY DEF TryCovered
<1>1. CASE d = m
  BY <1>1 DEF Goto, TypeOK
<1>2. CASE d # m
  <2>1. pc[d] = "acquire" /\ oks'[d] = oks[d]
    BY <1>2 DEF Goto, TypeOK
  <2> QED
    BY <1>2, <2>1 DEF TryCovered, Covered, Val
<1> QED
  BY <1>1, <1>2

\* Winning the lock: the pools the try counted cover the window.
LEMMA WonCovers ==
    ASSUME IndInv, Safe, NEW m \in Mutex, LockDone(m), Won(m)
    PROVE  /\ Majority(oks[m])
           /\ Window(m) <= now + Expiry - Skew
           /\ \A p \in oks[m] : Covered(p, Val(m, seq[m]), Window(m))
<1> USE DEF IndInv
<1>1. /\ start[m] <= now
      /\ \A p \in oks[m] : Covered(p, Val(m, seq[m]), start[m] + Expiry - Skew)
  BY DEF LockDone, TryCovered
<1>2. now \in Nat /\ start[m] \in Nat /\ oks[m] \subseteq Pool
  BY DEF TypeOK
<1>3. /\ Window(m) \in Int /\ Window(m) <= start[m] + Expiry - Skew
      /\ start[m] + Expiry - Skew <= now + Expiry - Skew
  BY <1>1, <1>2, TimeAssumption DEF Window, Safe
<1>4. ASSUME NEW p \in oks[m] PROVE Covered(p, Val(m, seq[m]), Window(m))
  BY <1>1, <1>2, <1>3, <1>4, TimeAssumption DEF Covered, TypeOK
<1> QED
  BY <1>1, <1>2, <1>3, <1>4, TimeAssumption DEF Majority, Won

\* The invariant is inductive.
LEMMA IndStep ==
    ASSUME Safe PROVE IndInv /\ [Next]_vars => IndInv'
<1> SUFFICES ASSUME IndInv, [Next]_vars PROVE IndInv'
  OBVIOUS
<1> USE DEF IndInv
<1>1. TypeOK'
  BY TypeStep
<1>2. CASE Tick
  <2>1. ASSUME NEW d \in Mutex, locked[d]
        PROVE  /\ until[d] <= now' + Expiry - Skew
               /\ \E S : Majority(S) /\ \A p \in S : Covered(p, Val(d, value[d]), until[d])'
    <3>1. PICK S : Majority(S) /\ \A p \in S : Covered(p, Val(d, value[d]), until[d])
      BY <2>1 DEF LockCovered
    <3>2. until[d] \in Int /\ until[d] <= now + Expiry - Skew /\ now' = now + 1 /\ now \in Nat
      BY <1>2, <2>1 DEF LockCovered, TypeOK, Tick
    <3>3. ASSUME NEW p \in S PROVE Covered(p, Val(d, value[d]), until[d])'
      <4> DEFINE v == Val(d, value[d])
                 t == until[d]
      <4>1. Covered(p, v, t) /\ p \in Pool /\ t \in Int
        BY <3>1, <3>2, <3>3 DEF Majority
      <4> SUFFICES ASSUME NEW w, w = v, NEW u \in Int, u = t PROVE Covered(p, w, u)'
        BY <1>2, <4>1 DEF Covered, Val, Tick
      <4> HIDE DEF v, t
      <4> QED
        BY <1>2, <4>1, TickCovers
    <3> QED
      BY <3>1, <3>2, <3>3, TimeAssumption
  <2>2. LockCovered'
    BY <1>2, <2>1 DEF LockCovered, Tick
  <2>3. ASSUME NEW d \in Mutex, pc[d] = "acquire", NEW p \in oks[d]
        PROVE  Covered(p, Val(d, seq[d]), start[d] + Expiry - Skew)'
    <3> DEFINE v == Val(d, seq[d])
               t == start[d] + Expiry - Skew
    <3>1. Covered(p, v, t) /\ p \in Pool /\ t \in Int
      BY <2>3, TimeAssumption DEF TryCovered, TypeOK
    <3> SUFFICES ASSUME NEW w, w = v, NEW u \in Int, u = t PROVE Covered(p, w, u)'
      BY <1>2, <3>1 DEF Covered, Val, Tick
    <3> HIDE DEF v, t
    <3> QED
      BY <1>2, <3>1, TickCovers
  <2>4. \A d \in Mutex : start[d] <= now => start[d] <= now'
    BY <1>2 DEF Tick, TypeOK
  <2>5. TryCovered'
    BY <1>2, <2>3, <2>4 DEF TryCovered, Tick
  <2>6. ValuesFresh' /\ NoLateRelease'
    BY <1>2 DEF ValuesFresh, NoLateRelease, Tick
  <2> QED
    BY <1>1, <2>2, <2>5, <2>6
<1>3. CASE LateExecution
  <2>1. PICK r \in flight : Executed(r) /\ flight' = flight \ {r}
    BY <1>3 DEF LateExecution
  <2>2. r \in Request /\ r.kind # "release"
    BY <2>1 DEF NoLateRelease, TypeOK
  <2>3. UNCHANGED <<now, seq, value, until, locked, pc, start, oks>>
    BY <1>3 DEF LateExecution
  <2>4. /\ LockCovered'
        /\ \A d \in Mutex : pc[d] = "acquire" =>
              \A p \in oks[d] : Covered(p, Val(d, seq[d]), start[d] + Expiry - Skew)'
    BY <2>1, <2>2, <2>3, RequestCovers
  <2>5. TryCovered'
    BY <2>3, <2>4 DEF TryCovered
  <2>6. ValuesFresh' /\ NoLateRelease'
    BY <2>1, <2>3 DEF ValuesFresh, NoLateRelease
  <2> QED
    BY <1>1, <2>4, <2>5, <2>6
<1>4. ASSUME NEW m \in Mutex, MutexStep(m) PROVE IndInv'
  <2>1. Val(m, seq[m]) \in Value /\ Val(m, value[m]) \in Value
    BY DEF Val, Value, TypeOK
  <2>2. \A d \in Mutex : \A s, u : Val(m, s) = Val(d, u) => m = d /\ s = u
    BY DEF Val
  <2>3. CASE LockCall(m)
    <3>1. LockCovered'
      BY <2>3, FrameCovers DEF LockCall
    <3>2. TryCovered'
      <4>1. \A d \in Mutex \ {m} : seq'[d] = seq[d] /\ start'[d] = start[d]
        BY <2>3 DEF LockCall, TypeOK
      <4>2. start'[m] <= now /\ Goto(m, "acquire") /\ UNCHANGED <<now, key>>
        BY <2>3 DEF LockCall, TypeOK
      <4> QED
        BY <4>1, <4>2, GotoCovers
    <3>3. ValuesFresh' /\ NoLateRelease'
      BY <2>3 DEF LockCall, Goto, ValuesFresh, NoLateRelease, TypeOK
    <3> QED
      BY <1>1, <3>1, <3>2, <3>3
  <2>4. CASE AcquirePool(m)
    BY <2>1, <2>4, VisitStep DEF AcquirePool, Kinds
  <2>5. CASE LockWon(m)
    <3>1. LockDone(m) /\ Won(m) /\ Goto(m, "idle") /\ UNCHANGED <<now, key, flight, seq>>
      BY <2>5 DEF LockWon, Forget
    <3>2. LockCovered'
      <4> SUFFICES ASSUME NEW d \in Mutex, locked'[d]
                   PROVE  /\ until'[d] <= now' + Expiry - Skew
                          /\ \E S : Majority(S) /\ \A p \in S :
                                Covered(p, Val(d, value[d]), until[d])'
        BY DEF LockCovered
      <4>1. CASE d = m
        <5>1. value'[m] = seq[m] /\ until'[m] = Window(m)
          BY <2>5 DEF LockWon, TypeOK
        <5>2. /\ Majority(oks[m])
              /\ Window(m) <= now + Expiry - Skew
              /\ \A p \in oks[m] : Covered(p, Val(m, seq[m]), Window(m))
          BY <3>1, WonCovers
        <5> QED
          BY <3>1, <4>1, <5>1, <5>2 DEF Covered, Val
      <4>2. CASE d # m
        BY <2>5, <3>1, <4>2 DEF LockWon, LockCovered, Covered, Val, TypeOK
      <4> QED
        BY <4>1, <4>2
    <3>3. TryCovered'
      <4>1. \A d \in Mutex \ {m} : seq'[d] = seq[d] /\ start'[d] = start[d]
        BY <2>5 DEF LockWon, Forget, TypeOK
      <4> QED
        BY <3>1, <4>1, GotoCovers
    <3>4. ValuesFresh' /\ NoLateRelease'
      BY <2>5 DEF LockWon, Forget, Goto, ValuesFresh, NoLateRelease, TypeOK
    <3> QED
      BY <1>1, <3>2, <3>3, <3>4
  <2>6. CASE LockLost(m)
    <3>1. LockCovered'
      BY <2>6, FrameCovers DEF LockLost
    <3>2. TryCovered'
      BY <2>6, GotoCovers DEF LockLost
    <3>3. ValuesFresh' /\ NoLateRelease'
      BY <2>6 DEF LockLost, LockDone, Goto, ValuesFresh, NoLateRelease, TypeOK
    <3> QED
      BY <1>1, <3>1, <3>2, <3>3
  <2>7. CASE ReleasePool(m)
    <3>1. pc[m] = "release" /\ value[m] # seq[m]
      BY <2>7 DEF ReleasePool, ValuesFresh, TypeOK
    <3>2. \A d \in Mutex : /\ pc[d] = "acquire" => Val(m, seq[m]) # Val(d, seq[d])
                           /\ locked[d] => Val(m, seq[m]) # Val(d, value[d])
      BY <2>2, <3>1
    <3> QED
      BY <2>1, <2>7, <3>1, <3>2, VisitStep DEF ReleasePool, Kinds
  <2>8. CASE TryFailed(m)
    <3>1. LockCovered'
      BY <2>8, FrameCovers DEF TryFailed
    <3>2. TryCovered'
      <4>1. \A d \in Mutex \ {m} : seq'[d] = seq[d] /\ start'[d] = start[d]
        BY <2>8 DEF TryFailed, Forget, TypeOK
      <4>2. PICK l \in {"sleep", "idle"} : Goto(m, l)
        BY <2>8 DEF TryFailed, Forget
      <4> QED
        BY <2>8, <4>1, <4>2, GotoCovers DEF TryFailed
    <3>3. ValuesFresh' /\ NoLateRelease'
      BY <2>8 DEF TryFailed, Forget, Goto, ValuesFresh, NoLateRelease, TypeOK
    <3> QED
      BY <1>1, <3>1, <3>2, <3>3
  <2>9. CASE NextTry(m)
    <3>1. LockCovered'
      BY <2>9, FrameCovers DEF NextTry
    <3>2. TryCovered'
      <4>1. \A d \in Mutex \ {m} : seq'[d] = seq[d] /\ start'[d] = start[d]
        BY <2>9 DEF NextTry, TypeOK
      <4>2. start'[m] <= now /\ Goto(m, "acquire") /\ UNCHANGED <<now, key>>
        BY <2>9 DEF NextTry, TypeOK
      <4> QED
        BY <4>1, <4>2, GotoCovers
    <3>3. ValuesFresh' /\ NoLateRelease'
      BY <2>9 DEF NextTry, Goto, ValuesFresh, NoLateRelease, TypeOK
    <3> QED
      BY <1>1, <3>1, <3>2, <3>3
  <2>10. CASE UnlockCall(m)
    <3>1. LockCovered'
      BY <2>10 DEF UnlockCall, LockCovered, Covered, Val, TypeOK
    <3>2. TryCovered'
      BY <2>10, GotoCovers DEF UnlockCall
    <3>3. ValuesFresh' /\ NoLateRelease'
      BY <2>10 DEF UnlockCall, Goto, ValuesFresh, NoLateRelease, TypeOK
    <3> QED
      BY <1>1, <3>1, <3>2, <3>3
  <2>11. CASE UnlockPool(m)
    <3>1. pc[m] = "unlock" /\ ~locked[m]
      BY <2>11 DEF UnlockPool, ValuesFresh
    <3>2. \A d \in Mutex : /\ pc[d] = "acquire" => Val(m, value[m]) # Val(d, seq[d])
                           /\ locked[d] => Val(m, value[m]) # Val(d, value[d])
      BY <2>2, <3>1
    <3> QED
      BY <2>1, <2>11, <3>1, <3>2, VisitStep DEF UnlockPool, Kinds
  <2>12. CASE ExtendCall(m)
    <3>1. LockCovered'
      BY <2>12, FrameCovers DEF ExtendCall
    <3>2. TryCovered'
      BY <2>12, GotoCovers DEF ExtendCall
    <3>3. ValuesFresh' /\ NoLateRelease'
      BY <2>12 DEF ExtendCall, Goto, ValuesFresh, NoLateRelease, TypeOK
    <3> QED
      BY <1>1, <3>1, <3>2, <3>3
  <2>13. CASE ExtendPool(m)
    BY <2>1, <2>13, VisitStep DEF ExtendPool, Kinds
  <2>14. CASE Return(m)
    <3>1. LockCovered'
      BY <2>14, FrameCovers DEF Return
    <3>2. TryCovered'
      <4>1. Goto(m, "idle") /\ (\A d \in Mutex \ {m} : start'[d] = start[d])
        BY <2>14 DEF Return, Forget, TypeOK
      <4> QED
        BY <2>14, <4>1, GotoCovers DEF Return
    <3>3. ValuesFresh' /\ NoLateRelease'
      BY <2>14 DEF Return, Forget, Goto, ValuesFresh, NoLateRelease, TypeOK
    <3> QED
      BY <1>1, <3>1, <3>2, <3>3
  <2> QED
    BY <1>4, <2>3, <2>4, <2>5, <2>6, <2>7, <2>8, <2>9, <2>10, <2>11, <2>12, <2>13, <2>14
       DEF MutexStep
<1>5. CASE UNCHANGED vars
  BY <1>5 DEF vars, TypeOK, TryCovered, LockCovered, Covered, ValuesFresh, NoLateRelease
<1> QED
  BY <1>2, <1>3, <1>4, <1>5 DEF Next

-----------------------------------------------------------------------------
(* Safety *)

\* The invariant holds of every reachable state.
LEMMA IndInvariant ==
    ASSUME Safe PROVE Spec => []IndInv
<1>1. Init => IndInv
  <2>1. Init => TypeOK
    BY TimeAssumption, PoolsAssumption DEF Init, TypeOK, Absent
  <2>2. Init => TryCovered /\ LockCovered /\ ValuesFresh /\ NoLateRelease
    BY DEF Init, TryCovered, LockCovered, ValuesFresh, NoLateRelease
  <2> QED
    BY <2>1, <2>2 DEF IndInv
<1>2. IndInv /\ [Next]_vars => IndInv'
  BY IndStep
<1> QED
  BY <1>1, <1>2, PTL DEF Spec

\* Two open windows, or an open window and a try that wins, share a pool
\* that holds both their values.
LEMMA OneValue ==
    ASSUME NEW S, Majority(S), NEW v, NEW t, now < t, \A p \in S : Covered(p, v, t),
           NEW T, Majority(T), NEW w, NEW u, now < u, \A p \in T : Covered(p, w, u)
    PROVE  v = w
BY MajoritiesMeet DEF Covered

\* At most one mutex has an open window, for any number of mutexes and pools
\* and any delays, failures and lost answers (Lock, mutex.go:33-69).
THEOREM MutualExclusionHolds ==
    ASSUME Safe PROVE Spec => []MutualExclusion
<1>1. IndInv => MutualExclusion
  <2> SUFFICES ASSUME IndInv, NEW m \in Mutex, NEW d \in Mutex, Valid(m), Valid(d)
               PROVE  m = d
    BY DEF MutualExclusion
  <2>1. PICK S : Majority(S) /\ \A p \in S : Covered(p, Val(m, value[m]), until[m])
    BY DEF IndInv, LockCovered, Valid
  <2>2. PICK T : Majority(T) /\ \A p \in T : Covered(p, Val(d, value[d]), until[d])
    BY DEF IndInv, LockCovered, Valid
  <2>3. Val(m, value[m]) = Val(d, value[d])
    BY <2>1, <2>2, OneValue DEF Valid
  <2> QED
    BY <2>3 DEF Val
<1> QED
  BY <1>1, IndInvariant, PTL

\* While a window is open a majority of the pools holds its value: expiry,
\* retries, Unlock and Extend never take it away (mutex.go:57-58).
THEOREM QuorumIsHeld ==
    ASSUME Safe PROVE Spec => []QuorumHeld
<1>1. IndInv => QuorumHeld
  <2> SUFFICES ASSUME IndInv, NEW m \in Mutex, Valid(m)
               PROVE  Cardinality({p \in Pool : Owns(p, Val(m, value[m]))}) >= Quorum
    BY DEF QuorumHeld
  <2> DEFINE T == {p \in Pool : Owns(p, Val(m, value[m]))}
  <2>1. PICK S : Majority(S) /\ \A p \in S : Covered(p, Val(m, value[m]), until[m])
    BY DEF IndInv, LockCovered, Valid
  <2>2. \A p \in S : p \in T
    BY <2>1 DEF Covered, Valid, Owns, Live, Majority, IndInv, TypeOK
  <2> QED
    BY <2>1, <2>2, MajorityGrows
<1> QED
  BY <1>1, IndInvariant, PTL

-----------------------------------------------------------------------------
(* Redsync implements Lease *)

\* A try wins only while no window is open, not even one of its own mutex.
LEMMA WonAlone ==
    ASSUME IndInv, Safe, NEW m \in Mutex, LockDone(m), Won(m), NEW d \in Mutex
    PROVE  ~Valid(d)
<1> SUFFICES ASSUME Valid(d) PROVE FALSE
  OBVIOUS
<1>1. PICK S : Majority(S) /\ \A p \in S : Covered(p, Val(d, value[d]), until[d])
  BY DEF IndInv, LockCovered, Valid
<1>2. Majority(oks[m]) /\ \A p \in oks[m] : Covered(p, Val(m, seq[m]), Window(m))
  BY WonCovers
<1>3. now < until[d] /\ now < Window(m)
  BY DEF Valid, Won
<1>4. Val(d, value[d]) = Val(m, seq[m])
  BY <1>1, <1>2, <1>3, OneValue
<1>5. value[m] < seq[m] /\ value[m] \in Nat /\ seq[m] \in Nat
  BY DEF IndInv, ValuesFresh, TypeOK, LockDone
<1> QED
  BY <1>4, <1>5 DEF Val

\* Every step of Redsync is a step of the lease or leaves it unchanged.
LEMMA LeaseStep ==
    ASSUME Safe
    PROVE  IndInv /\ [Next]_vars
               => [LeaseAbstract!LeaseNext]_(LeaseAbstract!leaseVars)
<1> SUFFICES ASSUME IndInv, [Next]_vars
             PROVE  \/ LeaseAbstract!LeaseNext
                    \/ UNCHANGED <<now, locked, until>>
  BY DEF LeaseAbstract!leaseVars
<1>1. CASE Tick
  BY <1>1 DEF Tick, LeaseAbstract!LeaseNext, LeaseAbstract!LeaseTick
<1>2. CASE LateExecution
  BY <1>2 DEF LateExecution
<1>3. ASSUME NEW m \in Mutex, LockWon(m) PROVE LeaseAbstract!LeaseNext
  <2>1. LockDone(m) /\ Won(m)
    BY <1>3 DEF LockWon
  <2>2. \A d \in Mutex : ~LeaseAbstract!Valid(d)
    BY <2>1, WonAlone DEF Valid, LeaseAbstract!Valid
  <2>3. until' = [until EXCEPT ![m] = Window(m)] /\ until'[m] = Window(m)
    BY <1>3 DEF LockWon, IndInv, TypeOK
  <2>4. LeaseAbstract!Grant(m)
    BY <1>3, <2>1, <2>2, <2>3 DEF LockWon, Won, LeaseAbstract!Grant
  <2> QED
    BY <2>4 DEF LeaseAbstract!LeaseNext
<1>4. ASSUME NEW m \in Mutex, UnlockCall(m) PROVE LeaseAbstract!LeaseNext
  <2>1. LeaseAbstract!GiveUp(m)
    BY <1>4 DEF UnlockCall, LeaseAbstract!GiveUp
  <2> QED
    BY <2>1 DEF LeaseAbstract!LeaseNext
<1>5. ASSUME NEW m \in Mutex, MutexStep(m), ~LockWon(m), ~UnlockCall(m)
      PROVE  UNCHANGED <<now, locked, until>>
  BY <1>5 DEF MutexStep, LockCall, AcquirePool, LockLost, ReleasePool, TryFailed,
              NextTry, UnlockPool, ExtendCall, ExtendPool, Return, Visit
<1>6. CASE UNCHANGED vars
  BY <1>6 DEF vars
<1> QED
  BY <1>1, <1>2, <1>3, <1>4, <1>5, <1>6 DEF Next

\* Redsync implements the lease: a window is granted only while none is open
\* and only if it is still open when Lock returns (mutex.go:57-62).
THEOREM ImplementsLease ==
    ASSUME Safe PROVE Spec => LeaseRefinement
<1>1. Init => LeaseAbstract!LeaseInit
  BY DEF Init, LeaseAbstract!LeaseInit
<1>2. IndInv /\ [Next]_vars => [LeaseAbstract!LeaseNext]_(LeaseAbstract!leaseVars)
  BY LeaseStep
<1> QED
  BY <1>1, <1>2, IndInvariant, PTL DEF Spec, LeaseRefinement, LeaseAbstract!LeaseSpec
-----------------------------------------------------------------------------
(* Nobody changes the key of another mutex *)

\* A request leaves a key alone that is live and holds another value.
LEMMA EffectSpares ==
    ASSUME TypeOK, NEW r \in Request, Executed(r),
           NEW p \in Pool, Live(p), key[p].val # r.val
    PROVE  key'[p] = key[p]
<1>1. PICK k \in Effect(r) : key' = [key EXCEPT ![r.pool] = k]
  BY DEF Executed
<1>2. r.pool = p => k = key[p]
  BY <1>1 DEF Effect, Owns, Request, Kinds
<1> QED
  BY <1>1, <1>2 DEF TypeOK, Request

\* A round of a loop with a value of m spares the live keys of the others.
LEMMA VisitSpares ==
    ASSUME TypeOK, NEW m \in Mutex, NEW kind \in Kinds, NEW s \in Nat,
           Visit(m, kind, Val(m, s)),
           NEW p \in Pool, Live(p), key[p].val.own # m
    PROVE  key'[p] = key[p]
<1> DEFINE r == [kind |-> kind, pool |-> at[m], val |-> Val(m, s)]
<1>1. /\ r \in Request /\ r.val = Val(m, s)
      /\ Val(m, s).own = m
  BY DEF Visit, Request, Val, Value
<1>2. Executed(r) \/ key' = key
  BY DEF Visit
<1> HIDE DEF r
<1> QED
  BY <1>1, <1>2, EffectSpares

\* Only a round of m's own loop, or the start and the end of one, moves m on.
LEMMA OwnerStep ==
    ASSUME TypeOK, [Next]_vars,
           NEW p \in Pool, NEW m \in Mutex,
           Live(p), at'[m] # at[m], key[p].val.own # m
    PROVE  key'[p] = key[p]
<1>1. PICK d \in Mutex : MutexStep(d)
  BY DEF Next, Tick, LateExecution, vars
<1>2. CASE key' = key
  BY <1>2
<1>3. ASSUME NEW kind \in Kinds, NEW s \in Nat, Visit(d, kind, Val(d, s))
      PROVE  key'[p] = key[p]
  <2>1. d = m
    BY <1>3 DEF Visit, TypeOK
  <2> QED
    BY <1>3, <2>1, VisitSpares
<1>4. \/ key' = key
      \/ \E kind \in Kinds, s \in Nat : Visit(d, kind, Val(d, s))
  <2>1. seq[d] \in Nat /\ value[d] \in Nat
    BY DEF TypeOK
  <2> QED
    BY <1>1, <2>1 DEF MutexStep, LockCall, AcquirePool, LockWon, LockLost, ReleasePool,
       TryFailed, NextTry, UnlockCall, UnlockPool, ExtendCall, ExtendPool, Return, Kinds
<1> QED
  BY <1>2, <1>3, <1>4

\* A live key is changed by its owner only, whatever the others request, for
\* any timing and any late execution (the GET comparison of the scripts,
\* mutex.go:117-138).
THEOREM OwnerChangesOnly == Spec => OnlyOwnerChanges
<1>1. TypeOK /\ [Next]_vars =>
        [\A p \in Pool, m \in Mutex :
            Live(p) /\ at'[m] # at[m] /\ key[p].val.own # m => key'[p] = key[p]]_vars
  BY OwnerStep
<1> QED
  BY <1>1, TypeCorrect, PTL DEF Spec, OnlyOwnerChanges

-----------------------------------------------------------------------------
(* Extend *)

\* An Extend under way: every pool it counted keeps the key for a whole
\* expiry, less the clock error, from the call of Extend.
ExtendCovered ==
    \A m \in Mutex :
        pc[m] = "extend" =>
            /\ start[m] <= now
            /\ \A p \in oks[m] : Covered(p, Val(m, value[m]), start[m] + Expiry - Skew)

ExtendInv == TypeOK /\ ExtendCovered /\ NoLateRelease

\* A pool that found the value and touched the key is covered from now on.
LEMMA TouchCovers ==
    ASSUME TypeOK, NEW r \in Request, r.kind = "touch", Executed(r), Counted(r),
           now' = now, NEW t \in Int, t <= now + Expiry - Skew
    PROVE  Covered(r.pool, r.val, t)'
<1>1. PICK k \in Effect(r) : key' = [key EXCEPT ![r.pool] = k]
  BY DEF Executed
<1>2. k \in Fresh(r.val)
  BY <1>1 DEF Effect, Counted
<1>3. k.val = r.val /\ k.exp >= t
  BY <1>2, TimeAssumption DEF Fresh, Life, TypeOK
<1> QED
  BY <1>1, <1>3 DEF Covered, TypeOK, Request

\* A request that releases no value an Extend is at work on uncovers nothing.
LEMMA RequestExtends ==
    ASSUME ExtendInv, NEW r \in Request, Executed(r),
           UNCHANGED <<now, value, pc, start>>,
           r.kind = "release" =>
               \A d \in Mutex : pc[d] = "extend" => r.val # Val(d, value[d]),
           NEW d \in Mutex, pc[d] = "extend", NEW p \in oks[d]
    PROVE  Covered(p, Val(d, value[d]), start[d] + Expiry - Skew)'
<1> USE DEF ExtendInv
<1> DEFINE v == Val(d, value[d])
           t == start[d] + Expiry - Skew
<1>1. /\ Covered(p, v, t) /\ p \in Pool
      /\ t \in Int /\ t <= now + Expiry - Skew
  BY TimeAssumption DEF ExtendCovered, TypeOK
<1>2. r.kind = "release" => r.val # v
  OBVIOUS
<1> SUFFICES ASSUME NEW w, w = v, NEW u \in Int, u = t PROVE Covered(p, w, u)'
  BY <1>1 DEF Covered, Val
<1> HIDE DEF v, t
<1> QED
  BY <1>1, <1>2, EffectCovers

\* A round of a loop keeps every Extend covered when it releases nothing that
\* an Extend is at work on.
LEMMA VisitExtends ==
    ASSUME ExtendInv, NEW m \in Mutex, NEW kind \in Kinds, NEW v \in Value,
           Visit(m, kind, v),
           pc[m] = "extend" => kind = "touch" /\ v = Val(m, value[m]),
           kind = "release" =>
               \A d \in Mutex : pc[d] = "extend" => v # Val(d, value[d])
    PROVE  ExtendCovered'
<1> USE DEF ExtendInv
<1> DEFINE r == [kind |-> kind, pool |-> at[m], val |-> v]
<1>1. /\ r \in Request /\ r.pool = at[m] /\ at[m] \in Pool
      /\ r.kind = kind /\ r.val = v
  BY DEF Visit, Request
<1>2. UNCHANGED <<now, seq, value, until, locked, pc, try, start>>
  BY DEF Visit
<1>3. CASE Executed(r)
  <2>1. ASSUME NEW d \in Mutex, pc[d] = "extend", NEW p \in oks'[d]
        PROVE  Covered(p, Val(d, value[d]), start[d] + Expiry - Skew)'
    <3>1. CASE p \in oks[d]
      BY <1>1, <1>2, <1>3, <2>1, <3>1, RequestExtends
    <3>2. CASE p \notin oks[d]
      <4>1. d = m /\ p = r.pool /\ Counted(r)
        BY <1>1, <2>1, <3>2 DEF Visit, TypeOK
      <4>2. r.kind = "touch" /\ r.val = Val(d, value[d])
        BY <1>1, <2>1, <4>1
      <4> DEFINE t == start[d] + Expiry - Skew
      <4>3. t \in Int /\ t <= now + Expiry - Skew
        BY <2>1, TimeAssumption DEF ExtendCovered, TypeOK
      <4> SUFFICES ASSUME NEW w, w = r.val, NEW u \in Int, u = t
                   PROVE  Covered(p, w, u)'
        BY <1>2, <4>2, <4>3 DEF Covered, Val
      <4> HIDE DEF t, r
      <4> QED
        BY <1>1, <1>2, <1>3, <4>1, <4>2, <4>3, TouchCovers
    <3> QED
      BY <3>1, <3>2
  <2> QED
    BY <1>2, <2>1 DEF ExtendCovered
<1>4. CASE UNCHANGED <<key, oks>>
  BY <1>2, <1>4 DEF ExtendCovered, Covered
<1> QED
  BY <1>3, <1>4 DEF Visit

\* The start and the end of a loop of m leave the Extends of the others
\* covered, and m's own as long as it begins with no pool counted.
LEMMA GotoExtends ==
    ASSUME ExtendInv, NEW m \in Mutex, NEW l, Goto(m, l), UNCHANGED <<now, key>>,
           \A d \in Mutex \ {m} : value'[d] = value[d] /\ start'[d] = start[d],
           l = "extend" => start'[m] <= now
    PROVE  ExtendCovered'
<1> USE DEF ExtendInv
<1> SUFFICES ASSUME NEW d \in Mutex, pc'[d] = "extend"
             PROVE  /\ start'[d] <= now'
                    /\ \A p \in oks'[d] :
                          Covered(p, Val(d, value[d]), start[d] + Expiry - Skew)'
  BY DEF ExtendCovered
<1>1. CASE d = m
  BY <1>1 DEF Goto, TypeOK
<1>2. CASE d # m
  <2>1. pc[d] = "extend" /\ oks'[d] = oks[d]
    BY <1>2 DEF Goto, TypeOK
  <2> QED
    BY <1>2, <2>1 DEF ExtendCovered, Covered, Val
<1> QED
  BY <1>1, <1>2

\* What Extend counted stays covered under every step.
LEMMA ExtendStep ==
    ASSUME "release" \notin LateKinds PROVE ExtendInv /\ [Next]_vars => ExtendInv'
<1> SUFFICES ASSUME ExtendInv, [Next]_vars PROVE ExtendInv'
  OBVIOUS
<1> USE DEF ExtendInv
<1>1. TypeOK'
  BY TypeStep
<1>2. CASE Tick
  <2>1. ASSUME NEW d \in Mutex, pc[d] = "extend", NEW p \in oks[d]
        PROVE  Covered(p, Val(d, value[d]), start[d] + Expiry - Skew)'
    <3> DEFINE v == Val(d, value[d])
               t == start[d] + Expiry - Skew
    <3>1. Covered(p, v, t) /\ p \in Pool /\ t \in Int
      BY <2>1, TimeAssumption DEF ExtendCovered, TypeOK
    <3> SUFFICES ASSUME NEW w, w = v, NEW u \in Int, u = t PROVE Covered(p, w, u)'
      BY <1>2, <3>1 DEF Covered, Val, Tick
    <3> HIDE DEF v, t
    <3> QED
      BY <1>2, <3>1, TickCovers
  <2>2. \A d \in Mutex : start[d] <= now => start[d] <= now'
    BY <1>2 DEF Tick, TypeOK
  <2>3. ExtendCovered'
    BY <1>2, <2>1, <2>2 DEF ExtendCovered, Tick
  <2> QED
    BY <1>1, <1>2, <2>3 DEF NoLateRelease, Tick
<1>3. CASE LateExecution
  <2>1. PICK r \in flight : Executed(r) /\ flight' = flight \ {r}
    BY <1>3 DEF LateExecution
  <2>2. r \in Request /\ r.kind # "release"
    BY <2>1 DEF NoLateRelease, TypeOK
  <2>3. UNCHANGED <<now, value, pc, start, oks>>
    BY <1>3 DEF LateExecution
  <2>4. ASSUME NEW d \in Mutex, pc[d] = "extend", NEW p \in oks[d]
        PROVE  Covered(p, Val(d, value[d]), start[d] + Expiry - Skew)'
    BY <2>1, <2>2, <2>3, <2>4, RequestExtends
  <2>5. ExtendCovered'
    BY <2>3, <2>4 DEF ExtendCovered
  <2> QED
    BY <1>1, <2>1, <2>5 DEF NoLateRelease
<1>4. ASSUME NEW m \in Mutex, MutexStep(m) PROVE ExtendCovered' /\ NoLateRelease'
  <2>1. Val(m, seq[m]) \in Value /\ Val(m, value[m]) \in Value
    BY DEF Val, Value, TypeOK
  <2>2. \A d \in Mutex : \A s, u : Val(m, s) = Val(d, u) => m = d
    BY DEF Val
  <2>3. ASSUME NEW kind \in Kinds, NEW v \in Value, Visit(m, kind, v)
        PROVE  NoLateRelease'
    BY <2>3 DEF Visit, NoLateRelease
  <2>4. ASSUME NEW l, Goto(m, l), UNCHANGED <<now, key, flight>>,
               \A d \in Mutex \ {m} : value'[d] = value[d] /\ start'[d] = start[d],
               l = "extend" => start'[m] <= now
        PROVE  ExtendCovered' /\ NoLateRelease'
    BY <2>4, GotoExtends DEF NoLateRelease
  <2>5. CASE LockCall(m)
    BY <2>4, <2>5 DEF LockCall, TypeOK
  <2>6. CASE AcquirePool(m)
    BY <2>1, <2>3, <2>6, VisitExtends DEF AcquirePool, Kinds
  <2>7. CASE LockWon(m)
    BY <2>4, <2>7 DEF LockWon, Forget, TypeOK
  <2>8. CASE LockLost(m)
    BY <2>4, <2>8 DEF LockLost
  <2>9. CASE ReleasePool(m)
    <3>1. \A d \in Mutex : pc[d] = "extend" => Val(m, seq[m]) # Val(d, value[d])
      BY <2>2, <2>9 DEF ReleasePool
    <3> QED
      BY <2>1, <2>3, <2>9, <3>1, VisitExtends DEF ReleasePool, Kinds
  <2>10. CASE TryFailed(m)
    <3>1. \A d \in Mutex \ {m} : value'[d] = value[d] /\ start'[d] = start[d]
      BY <2>10 DEF TryFailed, Forget, TypeOK
    <3>2. PICK l \in {"sleep", "idle"} : Goto(m, l)
      BY <2>10 DEF TryFailed, Forget
    <3> QED
      BY <2>4, <2>10, <3>1, <3>2 DEF TryFailed
  <2>11. CASE NextTry(m)
    BY <2>4, <2>11 DEF NextTry, TypeOK
  <2>12. CASE UnlockCall(m)
    BY <2>4, <2>12 DEF UnlockCall
  <2>13. CASE UnlockPool(m)
    <3>1. \A d \in Mutex : pc[d] = "extend" => Val(m, value[m]) # Val(d, value[d])
      BY <2>2, <2>13 DEF UnlockPool
    <3> QED
      BY <2>1, <2>3, <2>13, <3>1, VisitExtends DEF UnlockPool, Kinds
  <2>14. CASE ExtendCall(m)
    <3>1. /\ \A d \in Mutex \ {m} : value'[d] = value[d] /\ start'[d] = start[d]
          /\ start'[m] <= now
      BY <2>14 DEF ExtendCall, TypeOK
    <3> QED
      BY <2>4, <2>14, <3>1 DEF ExtendCall
  <2>15. CASE ExtendPool(m)
    BY <2>1, <2>3, <2>15, VisitExtends DEF ExtendPool, Kinds
  <2>16. CASE Return(m)
    BY <2>4, <2>16 DEF Return, Forget, TypeOK
  <2> QED
    BY <1>4, <2>5, <2>6, <2>7, <2>8, <2>9, <2>10, <2>11, <2>12, <2>13, <2>14, <2>15, <2>16
       DEF MutexStep
<1>5. CASE UNCHANGED vars
  BY <1>5 DEF vars, TypeOK, ExtendCovered, Covered, NoLateRelease
<1> QED
  BY <1>1, <1>2, <1>3, <1>4, <1>5 DEF Next

\* When Extend answers true within the life of a key, a majority of the pools
\* holds the key with m.value, whatever the other mutexes do meanwhile
\* (mutex.go:86-99).  Only a release that is executed late could undo it.
THEOREM ExtendAnswers ==
    ASSUME "release" \notin LateKinds PROVE Spec => []ExtendHolds
<1>1. Init => ExtendInv
  <2>1. Init => TypeOK
    BY TimeAssumption, PoolsAssumption DEF Init, TypeOK, Absent
  <2> QED
    BY <2>1 DEF Init, ExtendInv, ExtendCovered, NoLateRelease
<1>2. ExtendInv /\ [Next]_vars => ExtendInv'
  BY ExtendStep
<1>3. ExtendInv => ExtendHolds
  <2> SUFFICES ASSUME ExtendInv, NEW m \in Mutex, pc[m] = "extend", Answer(m),
                      now < start[m] + Expiry - Skew
               PROVE  Cardinality({p \in Pool : Owns(p, Val(m, value[m]))}) >= Quorum
    BY DEF ExtendHolds
  <2> DEFINE T == {p \in Pool : Owns(p, Val(m, value[m]))}
  <2>1. \A p \in oks[m] : p \in T
    BY TimeAssumption DEF ExtendInv, ExtendCovered, Covered, Owns, Live, TypeOK
  <2>2. Majority(oks[m])
    BY DEF Majority, Answer, ExtendInv, TypeOK
  <2> QED
    BY <2>1, <2>2, MajorityGrows
<1> QED
  BY <1>1, <1>2, <1>3, PTL DEF Spec
=============================================================================

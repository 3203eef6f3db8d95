-------------------------- MODULE RedisLockProofs --------------------------
(***************************************************************************)
(* TLAPS proofs about RedisLock, for any number of processes and           *)
(* goroutines.  What is local to a process, the type of the state and who  *)
(* has sl, holds whatever the key in Redis does.  What is said of the key  *)
(* needs ~Overrun: it does not expire before its owner calls Unlock.       *)
(***************************************************************************)
EXTENDS RedisLock, TLAPS

-----------------------------------------------------------------------------
(* Type correctness *)

\* Every step keeps the types; the flag stays one of its two values.
LEMMA TypeStep == TypeOK /\ [Next]_vars => TypeOK'
<1> SUFFICES ASSUME TypeOK, [Next]_vars PROVE TypeOK'
  OBVIOUS
<1> USE HomeAssumption, OverrunAssumption DEF TypeOK
<1>1. CASE Expire
  BY <1>1 DEF Expire
<1>2. ASSUME NEW g \in Go, Step(g) PROVE TypeOK'
  <2>1. \A to \in Locs : \A from : Move(g, from, to) => pc' \in [Go -> Locs]
    BY DEF Move
  <2>2. Home[g] \in Proc /\ <<g, count[g]>> \in Value
    BY DEF Value
  <2>3. CASE LockCall(g)
    <3>1. count' \in [Go -> 0 .. MaxLocks]
      BY <2>3 DEF LockCall
    <3> QED
      BY <2>1, <2>3, <3>1 DEF LockCall, Locs
  <2>4. CASE SlLock(g)
    BY <2>1, <2>2, <2>4 DEF SlLock, Locs
  <2>5. CASE SetFlag(g)
    BY <2>1, <2>2, <2>5 DEF SetFlag, Locs
  <2>6. CASE Select(g)
    BY <2>1, <2>6 DEF Select, Locs
  <2>7. CASE RlLock(g)
    BY <2>1, <2>2, <2>7 DEF RlLock, Locs
  <2>8. CASE FailSl(g)
    BY <2>1, <2>2, <2>8 DEF FailSl, Locs
  <2>9. CASE FailFlag(g)
    BY <2>1, <2>2, <2>9 DEF FailFlag, Locs
  <2>10. CASE UnlockCall(g)
    BY <2>1, <2>10 DEF UnlockCall, Locs
  <2>11. CASE UnlockSl(g)
    BY <2>1, <2>2, <2>11 DEF UnlockSl, Locs
  <2>12. CASE UnlockFlag(g)
    BY <2>1, <2>2, <2>12 DEF UnlockFlag, Locs
  <2>13. CASE RlUnlock(g)
    BY <2>1, <2>13 DEF RlUnlock, Victims, Locs
  <2> QED
    BY <1>2, <2>3, <2>4, <2>5, <2>6, <2>7, <2>8, <2>9, <2>10, <2>11, <2>12, <2>13 DEF Step
<1>3. CASE UNCHANGED vars
  BY <1>3 DEF vars
<1> QED
  BY <1>1, <1>2, <1>3 DEF Next

\* Every reachable state is well typed (redis.go:19-38).
THEOREM TypeCorrect == Spec => []TypeOK
<1>1. Init => TypeOK
  BY OverrunAssumption DEF Init, TypeOK, Locs
<1> QED
  BY <1>1, TypeStep, PTL DEF Spec

-----------------------------------------------------------------------------
(* The local mutex *)

\* The places between the return of r.sl.Lock and the call of r.sl.Unlock.
Inside == {"flag", "select", "redis", "in", "failSl", "unSl"}

\* At most one goroutine of a process is inside.
OneInside ==
    \A g, h \in Go :
        pc[g] \in Inside /\ pc[h] \in Inside /\ Home[g] = Home[h] => g = h

SlInv == TypeOK /\ SlHeld /\ OneInside

\* A goroutine gets inside by taking sl, which is free only when nobody is,
\* and gives sl up only on its way out.
LEMMA SlStep == SlInv /\ [Next]_vars => SlInv'
<1> SUFFICES ASSUME SlInv, [Next]_vars PROVE SlInv'
  OBVIOUS
<1> USE HomeAssumption DEF SlInv
<1>1. TypeOK'
  BY TypeStep
<1>2. CASE UNCHANGED <<sl, pc>>
  BY <1>1, <1>2 DEF SlHeld, OneInside
<1>3. ASSUME NEW g \in Go, NEW from, NEW to, Move(g, from, to)
      PROVE  /\ pc[g] = from /\ pc'[g] = to
             /\ \A h \in Go \ {g} : pc'[h] = pc[h]
  BY <1>3 DEF Move, TypeOK
\* g stays inside, or stays outside.
<1>4. ASSUME NEW g \in Go, NEW from, NEW to, Move(g, from, to), sl' = sl,
             to \in Inside => from \in Inside
      PROVE  SlHeld' /\ OneInside'
  BY <1>3, <1>4 DEF SlHeld, OneInside, Inside
\* g leaves and gives up sl.
<1>5. ASSUME NEW g \in Go, NEW from \in Inside, NEW to, Move(g, from, to),
             sl' = [sl EXCEPT ![Home[g]] = FALSE], to \notin Inside
      PROVE  SlHeld' /\ OneInside'
  <2>1. ASSUME NEW h \in Go, pc'[h] \in Inside PROVE sl'[Home[h]]
    <3>1. h # g /\ pc[h] \in Inside
      BY <1>3, <1>5, <2>1
    <3>2. Home[h] # Home[g]
      BY <1>3, <1>5, <3>1 DEF OneInside
    <3>3. sl[Home[h]]
      BY <3>1 DEF SlHeld, Inside
    <3> QED
      BY <1>5, <3>2, <3>3 DEF TypeOK
  <2>2. OneInside'
    BY <1>3, <1>5 DEF OneInside
  <2> QED
    BY <2>1, <2>2 DEF SlHeld, Inside
<1>6. ASSUME NEW g \in Go, Step(g) PROVE SlHeld' /\ OneInside'
  <2>1. CASE SlLock(g)
    <3>1. /\ Move(g, "wait", "flag") /\ ~sl[Home[g]]
          /\ sl' = [sl EXCEPT ![Home[g]] = TRUE]
      BY <2>1 DEF SlLock
    <3>2. \A h \in Go \ {g} : pc[h] \in Inside => Home[h] # Home[g]
      BY <3>1 DEF SlHeld, Inside
    <3>3. OneInside'
      BY <1>3, <3>1, <3>2 DEF OneInside
    <3>4. SlHeld'
      BY <1>3, <3>1, <3>2 DEF SlHeld, Inside, TypeOK
    <3> QED
      BY <3>3, <3>4
  <2>2. CASE FailSl(g)
    BY <1>5, <2>2 DEF FailSl, Inside
  <2>3. CASE UnlockSl(g)
    BY <1>5, <2>3 DEF UnlockSl, Inside
  <2>4. CASE LockCall(g)
    BY <1>4, <2>4 DEF LockCall, Inside
  <2>5. CASE SetFlag(g)
    BY <1>4, <2>5 DEF SetFlag, Inside
  <2>6. CASE Select(g)
    BY <1>4, <2>6 DEF Select, Inside
  <2>7. CASE RlLock(g)
    BY <1>4, <2>7 DEF RlLock, Inside
  <2>8. CASE FailFlag(g)
    BY <1>4, <2>8 DEF FailFlag, Inside
  <2>9. CASE UnlockCall(g)
    BY <1>4, <2>9 DEF UnlockCall, Inside
  <2>10. CASE UnlockFlag(g)
    BY <1>4, <2>10 DEF UnlockFlag, Inside
  <2>11. CASE RlUnlock(g)
    BY <1>4, <2>11 DEF RlUnlock, Inside
  <2> QED
    BY <1>6, <2>1, <2>2, <2>3, <2>4, <2>5, <2>6, <2>7, <2>8, <2>9, <2>10, <2>11 DEF Step
<1> QED
  BY <1>1, <1>2, <1>6 DEF Next, Expire, vars

\* No goroutine's failure or Unlock releases the sl another one has taken, so
\* r.sl.Unlock never meets an unlocked sync.Mutex (redis.go:97, 106, 115).
THEOREM SlIsHeld == Spec => []SlHeld
<1>1. Init => SlInv
  BY OverrunAssumption DEF Init, SlInv, TypeOK, Locs, SlHeld, OneInside, Inside
<1>2. SlInv => SlHeld
  BY DEF SlInv
<1> QED
  BY <1>1, <1>2, SlStep, PTL DEF Spec

-----------------------------------------------------------------------------
(* The key *)

\* Whoever holds the lock has its own value in Redis, unless it was robbed of
\* it since; m.value of a process is the value of one of its goroutines.
KeyHeld == \A g \in Go : Holds(g) => g \in robbed \/ key = <<g, count[g]>>

OwnValue == \A p \in Proc : value[p] # None => Home[value[p][1]] = p

KeyInv == TypeOK /\ KeyHeld /\ OwnValue

\* The key is set only when it is free, and then everyone who holds the lock
\* was robbed; an rl.Unlock that deletes it writes down whom it robs, and it
\* does not expire under its holder.
LEMMA KeyStep ==
    ASSUME ~Overrun PROVE KeyInv /\ [Next]_vars => KeyInv'
<1> SUFFICES ASSUME KeyInv, [Next]_vars PROVE KeyInv'
  OBVIOUS
<1> USE DEF KeyInv
<1>1. TypeOK'
  BY TypeStep
<1>2. CASE Expire
  <2>1. key # None /\ ~Holds(key[1]) /\ UNCHANGED <<count, pc, value, robbed>>
    BY <1>2 DEF Expire
  <2>2. \A g \in Go : <<g, count[g]>>[1] = g
    OBVIOUS
  <2>3. \A g \in Go : Holds(g) => g \in robbed
    BY <2>1, <2>2 DEF KeyHeld
  <2> QED
    BY <1>1, <2>1, <2>3 DEF KeyHeld, OwnValue, Holds
<1>3. ASSUME NEW g \in Go, NEW from, NEW to, Move(g, from, to)
      PROVE  /\ pc[g] = from /\ pc'[g] = to
             /\ \A h \in Go \ {g} : pc'[h] = pc[h]
  BY <1>3 DEF Move, TypeOK
\* A step that is not rl's: g does not come in, the key stays.
<1>4. ASSUME NEW g \in Go, NEW from, NEW to, Move(g, from, to), to # "in",
             UNCHANGED <<key, value, robbed>>,
             \A h \in Go \ {g} : count'[h] = count[h]
      PROVE  KeyHeld' /\ OwnValue'
  BY <1>3, <1>4 DEF KeyHeld, OwnValue, Holds
<1>5. ASSUME NEW g \in Go, Step(g) PROVE KeyHeld' /\ OwnValue'
  <2>1. CASE LockCall(g)
    <3>1. \A h \in Go \ {g} : count'[h] = count[h]
      BY <2>1 DEF LockCall, TypeOK
    <3> QED
      BY <1>4, <2>1, <3>1 DEF LockCall
  <2>2. CASE SlLock(g)
    BY <1>4, <2>2 DEF SlLock
  <2>3. CASE SetFlag(g)
    BY <1>4, <2>3 DEF SetFlag
  <2>4. CASE Select(g)
    BY <1>4, <2>4 DEF Select
  <2>5. CASE RlLock(g)
    <3>1. CASE /\ key = None /\ key' = <<g, count[g]>> /\ Move(g, "redis", "in")
               /\ value' = [value EXCEPT ![Home[g]] = <<g, count[g]>>]
               /\ robbed' = robbed \ {g}
      <4>1. \A h \in Go : <<h, count[h]>> \in Value
        BY OverrunAssumption DEF Value, TypeOK
      <4>2. \A h \in Go : Holds(h) => h \in robbed
        BY <3>1, <4>1, NoneAssumption DEF KeyHeld
      <4>3. KeyHeld'
        BY <1>3, <2>5, <3>1, <4>2 DEF RlLock, KeyHeld, Holds
      <4>4. <<g, count[g]>>[1] = g
        OBVIOUS
      <4>5. OwnValue'
        BY <3>1, <4>4, HomeAssumption DEF OwnValue, TypeOK
      <4> QED
        BY <4>3, <4>5
    <3>2. CASE Move(g, "redis", "failSl") /\ UNCHANGED <<value, key, robbed>>
      BY <1>4, <2>5, <3>2 DEF RlLock
    <3> QED
      BY <2>5, <3>1, <3>2 DEF RlLock
  <2>6. CASE FailSl(g)
    BY <1>4, <2>6 DEF FailSl
  <2>7. CASE FailFlag(g)
    BY <1>4, <2>7 DEF FailFlag
  <2>8. CASE UnlockCall(g)
    BY <1>4, <2>8 DEF UnlockCall
  <2>9. CASE UnlockSl(g)
    BY <1>4, <2>9 DEF UnlockSl
  <2>10. CASE UnlockFlag(g)
    BY <1>4, <2>10 DEF UnlockFlag
  <2>11. CASE RlUnlock(g)
    <3>1. pc[g] = "unRedis" /\ pc'[g] = "out" /\ \A h \in Go \ {g} : pc'[h] = pc[h]
      BY <1>3, <2>11 DEF RlUnlock
    <3>2. key' = key \/ key' = None
      BY <2>11 DEF RlUnlock
    <3>3. robbed' = robbed \cup Victims(g) /\ UNCHANGED <<count, value>>
      BY <2>11 DEF RlUnlock
    <3>4. ASSUME NEW h \in Go, pc'[h] = "in" PROVE h \in robbed' \/ key' = <<h, count[h]>>
      <4>1. h # g /\ Holds(h)
        BY <3>1, <3>4 DEF Holds
      <4>2. h \in robbed \/ key = <<h, count[h]>>
        BY <4>1 DEF KeyHeld
      <4> QED
        BY <3>2, <3>3, <4>1, <4>2 DEF Victims
    <3> QED
      BY <3>3, <3>4 DEF KeyHeld, OwnValue, Holds
  <2> QED
    BY <1>5, <2>1, <2>2, <2>3, <2>4, <2>5, <2>6, <2>7, <2>8, <2>9, <2>10, <2>11 DEF Step
<1>6. CASE UNCHANGED vars
  BY <1>6 DEF vars, TypeOK, KeyHeld, OwnValue, Holds
<1> QED
  BY <1>1, <1>2, <1>5, <1>6 DEF Next

\* The invariant holds of every reachable state.
LEMMA KeyInvariant ==
    ASSUME ~Overrun PROVE Spec => []KeyInv
<1>1. Init => KeyInv
  BY OverrunAssumption DEF Init, KeyInv, TypeOK, Locs, KeyHeld, OwnValue, Holds
<1>2. KeyInv /\ [Next]_vars => KeyInv'
  BY KeyStep
<1> QED
  BY <1>1, <1>2, PTL DEF Spec

\* Two goroutines are between Lock and Unlock together only if a late
\* rl.Unlock of one's own process took that one's key (redis.go:78-119).
THEOREM ExclusionHolds ==
    ASSUME ~Overrun PROVE Spec => []Exclusion
<1>1. KeyInv => Exclusion
  <2>1. \A g, h \in Go : <<g, count[g]>> = <<h, count[h]>> => g = h
    OBVIOUS
  <2> QED
    BY <2>1 DEF KeyInv, KeyHeld, Exclusion
<1> QED
  BY <1>1, KeyInvariant, PTL

\* The steps of a goroutine that is not in rl leave the key alone; rl.Unlock
\* deletes it only if it is m.value of its own process.
LEMMA KeyChange ==
    ASSUME ~Overrun, KeyInv, [Next]_vars, NEW g \in Go, Holds(g),
           key = <<g, count[g]>>, key' # key
    PROVE  \E h \in Go : Home[h] = Home[g] /\ pc[h] = "unRedis" /\ pc'[h] = "out"
<1>1. <<g, count[g]>> \in Value /\ <<g, count[g]>>[1] = g
  BY OverrunAssumption DEF KeyInv, TypeOK, Value
<1>2. key # None /\ key[1] = g
  BY <1>1, NoneAssumption
<1>3. ~Expire
  BY <1>2 DEF Expire
<1>4. PICK h \in Go : Step(h)
  BY <1>3 DEF Next, vars
<1>5. RlUnlock(h)
  BY <1>2, <1>4 DEF Step, LockCall, SlLock, SetFlag, Select, RlLock,
     FailSl, FailFlag, UnlockCall, UnlockSl, UnlockFlag
<1>6. key = value[Home[h]] /\ pc[h] = "unRedis" /\ pc'[h] = "out"
  BY <1>5 DEF RlUnlock, Move, KeyInv, TypeOK
<1>7. Home[h] \in Proc
  BY HomeAssumption
<1>8. Home[g] = Home[h]
  BY <1>2, <1>6, <1>7 DEF KeyInv, OwnValue
<1> QED
  BY <1>6, <1>8

\* Only a pending rl.Unlock of the holder's own process takes the holder's
\* key; the other processes leave it alone (redis.go:117).
THEOREM OnlyOwnProcessTakes ==
    ASSUME ~Overrun PROVE Spec => OnlyOwnProcess
<1>1. KeyInv /\ [Next]_vars =>
        [\A g \in Go : Holds(g) /\ key = <<g, count[g]>> /\ key' # key
             => \E h \in Go : Home[h] = Home[g] /\ pc[h] = "unRedis" /\ pc'[h] = "out"]_vars
  BY KeyChange
<1> QED
  BY <1>1, KeyInvariant, PTL DEF Spec, OnlyOwnProcess

-----------------------------------------------------------------------------
(* One goroutine per process *)

\* Nobody is robbed where no two goroutines share a RedisLock.
AloneInv == KeyInv /\ robbed = {}

\* Mutual exclusion, whatever expires while an Unlock is under way, where
\* every process locks from one goroutine only: then m.value is still the
\* value of the goroutine that unlocks (redis.go:78-119).
THEOREM AloneExcluded ==
    ASSUME ~Overrun, \A g, h \in Go : Home[g] = Home[h] => g = h
    PROVE  Spec => []MutualExclusion
<1>1. Init => AloneInv
  BY OverrunAssumption DEF Init, AloneInv, KeyInv, TypeOK, Locs, KeyHeld, OwnValue, Holds
<1>2. AloneInv /\ [Next]_vars => AloneInv'
  <2> SUFFICES ASSUME AloneInv, [Next]_vars PROVE AloneInv'
    OBVIOUS
  <2>1. KeyInv'
    BY KeyStep DEF AloneInv
  <2>2. ASSUME NEW h \in Go, RlUnlock(h) PROVE Victims(h) = {}
    <3>1. ASSUME NEW g \in Go \ {h}, Holds(g), key = <<g, count[g]>>, key' = None PROVE FALSE
      <4>1. <<g, count[g]>> \in Value
        BY OverrunAssumption DEF AloneInv, KeyInv, TypeOK, Value
      <4>2. key' # key
        BY <3>1, <4>1, NoneAssumption
      <4>3. PICK x \in Go : Home[x] = Home[g] /\ pc[x] = "unRedis"
        BY <3>1, <4>2, KeyChange DEF AloneInv
      <4> QED
        BY <3>1, <4>3 DEF Holds
    <3> QED
      BY <3>1 DEF Victims
  <2>3. ASSUME NEW h \in Go, Step(h) PROVE robbed' = {}
    BY <2>2, <2>3 DEF AloneInv, Step, LockCall, SlLock, SetFlag, Select, RlLock,
       FailSl, FailFlag, UnlockCall, UnlockSl, UnlockFlag, RlUnlock
  <2> QED
    BY <2>1, <2>3 DEF AloneInv, Next, Expire, vars
<1>3. AloneInv => MutualExclusion
  <2>1. \A g, h \in Go : <<g, count[g]>> = <<h, count[h]>> => g = h
    OBVIOUS
  <2> QED
    BY <2>1 DEF AloneInv, KeyInv, KeyHeld, MutualExclusion
<1> QED
  BY <1>1, <1>2, <1>3, PTL DEF Spec
=============================================================================

-------------------------- MODULE MqProducerProofs --------------------------
(***************************************************************************)
(* TLAPS proofs about MqProducer, for any number of publishers, nsqds and  *)
(* connections per nsqd: a channel never gets more connections than it can *)
(* hold, and none is lost or duplicated until its pool is closed.  addrMtx *)
(* plays no part in the argument.                                          *)
(***************************************************************************)
EXTENDS MqProducer, FiniteSetTheorems, TLAPS

\* The publishers that hold a connection of a.
Holders(a) == {p \in Pub : pc[p] \in {"send", "put"} /\ got[p] = a}

-----------------------------------------------------------------------------
(* The inductive invariant *)

\* A call has not tried yet before it has a connection, and stops trying
\* after the third time.
Tried ==
    \A p \in Pub : /\ pc[p] \in {"idle", "rlock", "pick", "recv"} => try[p] = 0
                   /\ pc[p] = "send" => try[p] < Tries

\* Whoever works on an address finds its pool: publishers under way, the
\* lookup once it connected, and Close.
Backed ==
    /\ \A p \in Pub :
          pc[p] \in {"recv", "send", "put"} => got[p] \in Addr /\ pool[got[p]] # None
    /\ \A a \in poll.answer : a \in poll.todo \/ pool[a] # None
    /\ poll.at = "lock" => poll.todo = {}
    /\ poll.at = "fill" => poll.cur \in Addr /\ pool[poll.cur] # None
    /\ closer.at \in {"flag", "drain"} =>
          closer.cur \in Addr /\ pool[closer.cur] # None /\ pool[closer.cur].shut

\* A pool's flag is set after its channel was closed, never before.
ShutFirst == \A a \in Addr : pool[a] # None /\ pool[a].closed => pool[a].shut

MqInv == TypeOK /\ Tried /\ Backed /\ ShutFirst /\ Conserved

-----------------------------------------------------------------------------
(* What the operators do to the state *)

\* One field of one pool is replaced.
LEMMA PoolUpdate ==
    ASSUME TypeOK, NEW a \in Addr, pool[a] # None, NEW r \in Pools,
           pool' = [pool EXCEPT ![a] = r]
    PROVE  /\ pool' \in [Addr -> Pools \cup {None}]
           /\ pool'[a] = r /\ r # None
           /\ \A b \in Addr : b # a => pool'[b] = pool[b]
           /\ \A b \in Addr : pool[b] # None => pool'[b] # None
BY NoneAssumption DEF TypeOK

\* The record a pool is.
LEMMA PoolRecord ==
    ASSUME TypeOK, NEW a \in Addr, pool[a] # None
    PROVE  /\ pool[a] \in Pools
           /\ pool[a].n \in 0 .. Cap /\ pool[a].made \in 0 .. Cap
           /\ pool[a].shut \in BOOLEAN /\ pool[a].closed \in BOOLEAN
BY DEF TypeOK, Pools

\* The publishers that hold a connection are finitely many.
LEMMA HoldersFinite ==
    ASSUME NEW a
    PROVE  IsFiniteSet(Holders(a)) /\ Cardinality(Holders(a)) \in Nat
<1>1. Holders(a) \subseteq Pub
  BY DEF Holders
<1>2. IsFiniteSet(Holders(a))
  BY <1>1, PubAssumption, FS_Subset
<1> QED
  BY <1>2, FS_CardinalityType

\* Conserved, in terms of Holders.
LEMMA ConservedMeans ==
    Conserved <=>
        \A a \in Addr :
            pool[a] # None =>
                /\ ~pool[a].shut => pool[a].n + Cardinality(Holders(a)) = pool[a].made
                /\ pool[a].closed => pool[a].n = 0 \/ (closer.at = "drain" /\ closer.cur = a)
BY DEF Conserved, Holders

\* Moving publisher p.
LEMMA GotoEffect ==
    ASSUME TypeOK, NEW p \in Pub, NEW l \in {"idle", "rlock", "pick", "recv", "send", "put", "panic"},
           Goto(p, l)
    PROVE  /\ pc' \in [Pub -> {"idle", "rlock", "pick", "recv", "send", "put", "panic"}]
           /\ pc'[p] = l
           /\ \A q \in Pub : q # p => pc'[q] = pc[q]
BY DEF TypeOK, Goto

\* Publish returns r: nothing of the call is left.
LEMMA DoneEffect ==
    ASSUME TypeOK, NEW p \in Pub, NEW r \in {"nil", "error"}, Done(p, r)
    PROVE  /\ pc' \in [Pub -> {"idle", "rlock", "pick", "recv", "send", "put", "panic"}]
           /\ got' \in [Pub -> Addr \cup {None}] /\ try' \in [Pub -> 0 .. Tries]
           /\ res' \in [Pub -> {None, "nil", "error"}]
           /\ pc'[p] = "idle" /\ got'[p] = None /\ try'[p] = 0
           /\ \A q \in Pub : q # p => pc'[q] = pc[q] /\ got'[q] = got[q] /\ try'[q] = try[q]
<1>1. Goto(p, "idle")
  BY DEF Done
<1> QED
  BY <1>1, GotoEffect DEF TypeOK, Done, Tries

-----------------------------------------------------------------------------
(* The lookup *)

LEMMA QueryKeeps == ASSUME MqInv, Query PROVE MqInv'
<1> USE DEF MqInv, mutex, pubs
<1>1. polls' \in 0 .. MaxPolls
  <2>1. polls \in 0 .. MaxPolls /\ polls < MaxPolls /\ polls' = polls + 1
    BY DEF Query, TypeOK
  <2> QED
    BY <2>1, MqAssumption
<1>2. /\ poll' \in [at : {"wait", "connect", "fill", "lock", "exit", "panic"},
                 answer : SUBSET Addr, todo : SUBSET Addr, cur : Addr \cup {None}]
      /\ \A a \in poll'.answer : a \in poll'.todo \/ pool[a] # None
      /\ poll'.at = "lock" => poll'.todo = {}
  <2>1. CASE UNCHANGED poll
    BY <2>1 DEF TypeOK, Backed
  <2>2. ASSUME NEW A \in Answers, poll' = [NoPoll EXCEPT !.at = "connect", !.answer = A, !.todo = A]
        PROVE  /\ poll' \in [at : {"wait", "connect", "fill", "lock", "exit", "panic"},
                       answer : SUBSET Addr, todo : SUBSET Addr, cur : Addr \cup {None}]
               /\ \A a \in poll'.answer : a \in poll'.todo \/ pool[a] # None
               /\ poll'.at = "lock" => poll'.todo = {}
    <3>1. A \in SUBSET Addr
      BY MqAssumption
    <3>2. poll' = [at |-> "connect", answer |-> A, todo |-> A, cur |-> None]
      BY <2>2 DEF NoPoll
    <3> QED
      BY <3>1, <3>2
  <2> QED
    BY <2>1, <2>2 DEF Query
<1>3. TypeOK'
  BY <1>1, <1>2 DEF Query, TypeOK
<1>4. Backed'
  BY <1>2 DEF Query, Backed
<1> QED
  BY <1>3, <1>4 DEF Query, Tried, ShutFirst, Conserved

LEMMA ConnectKeeps == ASSUME MqInv, ConnectToNSQD PROVE MqInv'
<1> USE DEF MqInv, mutex, pubs
<1> PICK a \in poll.todo :
          IF pool[a] # None
          THEN poll' = [poll EXCEPT !.todo = @ \ {a}] /\ UNCHANGED pool
          ELSE /\ pool' = [pool EXCEPT ![a] = NewPool]
               /\ \/ poll' = [poll EXCEPT !.todo = @ \ {a}, !.at = "fill", !.cur = a]
                  \/ "connect" \in Faults /\ poll' = [poll EXCEPT !.todo = @ \ {a}]
  BY DEF ConnectToNSQD
<1>1. a \in Addr /\ poll.at = "connect" /\ UNCHANGED <<addrs, mutex, pubs, polls, closer>>
  BY DEF ConnectToNSQD, TypeOK
<1>2. /\ poll' \in [at : {"wait", "connect", "fill", "lock", "exit", "panic"},
                 answer : SUBSET Addr, todo : SUBSET Addr, cur : Addr \cup {None}]
      /\ poll'.answer = poll.answer /\ poll'.todo = poll.todo \ {a}
      /\ \/ poll'.at = "connect"
         \/ poll'.at = "fill" /\ poll'.cur = a /\ pool[a] = None
  <2>1. poll \in [at : {"wait", "connect", "fill", "lock", "exit", "panic"},
                 answer : SUBSET Addr, todo : SUBSET Addr, cur : Addr \cup {None}]
    BY DEF TypeOK
  <2>2. CASE poll' = [poll EXCEPT !.todo = @ \ {a}]
    BY <1>1, <2>1, <2>2
  <2>3. CASE pool[a] = None /\ poll' = [poll EXCEPT !.todo = @ \ {a}, !.at = "fill", !.cur = a]
    BY <1>1, <2>1, <2>3
  <2> QED
    BY <2>2, <2>3
<1>3. CASE pool[a] # None
  <2>1. UNCHANGED pool
    BY <1>3
  <2>2. TypeOK'
    BY <1>1, <1>2, <2>1 DEF TypeOK
  <2>3. Backed'
    BY <1>1, <1>2, <1>3, <2>1 DEF Backed
  <2> QED
    BY <1>1, <2>1, <2>2, <2>3 DEF Tried, ShutFirst, Conserved
<1>4. CASE pool[a] = None
  <2>1. NewPool \in Pools /\ pool' = [pool EXCEPT ![a] = NewPool]
    BY <1>4, MqAssumption DEF NewPool, Pools
  <2>2. /\ pool' \in [Addr -> Pools \cup {None}] /\ pool'[a] = NewPool /\ pool'[a] # None
        /\ \A b \in Addr : b # a => pool'[b] = pool[b]
        /\ \A b \in Addr : pool[b] # None => pool'[b] # None
    BY <1>1, <1>4, <2>1, NoneAssumption DEF TypeOK
  <2>3. TypeOK'
    BY <1>1, <1>2, <2>2 DEF TypeOK
  <2>4. Backed'
    <3>1. \A p \in Pub : pc[p] \in {"recv", "send", "put"} => got[p] \in Addr /\ pool'[got[p]] # None
      BY <2>2 DEF Backed
    <3>2. \A b \in poll'.answer : b \in poll'.todo \/ pool'[b] # None
      BY <1>2, <2>2 DEF Backed, TypeOK
    <3>3. closer.at \in {"flag", "drain"} =>
            closer.cur \in Addr /\ pool'[closer.cur] # None /\ pool'[closer.cur].shut
      BY <1>4, <2>2 DEF Backed
    <3>4. poll'.at = "fill" => poll'.cur \in Addr /\ pool'[poll'.cur] # None
      BY <1>1, <1>2, <2>2
    <3> QED
      BY <1>1, <1>2, <3>1, <3>2, <3>3, <3>4 DEF Backed
  <2>5. ShutFirst'
    BY <2>2 DEF ShutFirst, NewPool
  <2>6. Holders(a) = {}
    BY <1>4 DEF Holders, Backed
  <2>7. Conserved'
    <3>1. Cardinality(Holders(a)) = 0
      BY <2>6, FS_EmptySet
    <3>2. \A b \in Addr : Holders(b)' = Holders(b)
      BY <1>1 DEF Holders
    <3>3. pool'[a].n = 0 /\ pool'[a].made = 0 /\ ~pool'[a].closed
      BY <2>2 DEF NewPool
    <3>4. ASSUME NEW b \in Addr, pool'[b] # None
          PROVE  /\ ~pool'[b].shut => pool'[b].n + Cardinality(Holders(b)') = pool'[b].made
                 /\ pool'[b].closed => pool'[b].n = 0 \/ (closer'.at = "drain" /\ closer'.cur = b)
      <4>1. CASE b = a
        BY <3>1, <3>2, <3>3, <4>1
      <4>2. CASE b # a
        BY <1>1, <2>2, <3>2, <3>4, <4>2, ConservedMeans
      <4> QED
        BY <4>1, <4>2
    <3> QED
      BY <3>4 DEF Conserved, Holders
  <2> QED
    BY <1>1, <2>3, <2>4, <2>5, <2>7 DEF Tried
<1> QED
  BY <1>3, <1>4

\* A pool's record is replaced by one that counts as many connections more in
\* the channel as were made, or only differs once the channel is closed.
LEMMA ChannelKeeps ==
    ASSUME MqInv, NEW a \in Addr, pool[a] # None, NEW r \in Pools,
           pool' = [pool EXCEPT ![a] = r], r.shut = pool[a].shut,
           UNCHANGED <<addrs, mutex, pubs, polls>>,
           ~r.shut => r.n - pool[a].n = r.made - pool[a].made /\ ~r.closed,
           r.closed => r.n = 0 \/ (closer'.at = "drain" /\ closer'.cur = a),
           closer' = closer \/ (closer'.at = "drain" /\ closer.at = "flag" /\ closer'.cur = a
                                                                  /\ closer.cur = a),
           closer' \in [at : {"no", "next", "flag", "drain", "done"}, todo : SUBSET Addr,
                        cur : Addr \cup {None}],
           poll' = poll
    PROVE  MqInv'
<1> USE DEF MqInv, mutex, pubs
<1>1. /\ pool' \in [Addr -> Pools \cup {None}] /\ pool'[a] = r /\ pool'[a] # None
      /\ \A b \in Addr : b # a => pool'[b] = pool[b]
      /\ \A b \in Addr : pool[b] # None => pool'[b] # None
  BY PoolUpdate
<1>2. TypeOK'
  BY <1>1 DEF TypeOK
<1>3. Backed'
  <2>1. \A p \in Pub : pc[p] \in {"recv", "send", "put"} => got[p] \in Addr /\ pool'[got[p]] # None
    BY <1>1 DEF Backed
  <2>2. \A b \in poll.answer : b \in poll.todo \/ pool'[b] # None
    BY <1>1 DEF Backed, TypeOK
  <2>3. closer'.at \in {"flag", "drain"} =>
          closer'.cur \in Addr /\ pool'[closer'.cur] # None /\ pool'[closer'.cur].shut
    BY <1>1 DEF Backed
  <2>4. poll.at = "fill" => poll.cur \in Addr /\ pool'[poll.cur] # None
    BY <1>1 DEF Backed
  <2> QED
    BY <2>1, <2>2, <2>3, <2>4 DEF Backed
<1>4. ShutFirst'
  BY <1>1 DEF ShutFirst, Pools
<1>5. Conserved'
  <2>1. \A b \in Addr : Holders(b)' = Holders(b)
    BY DEF Holders
  <2>2. ASSUME NEW b \in Addr, pool'[b] # None
        PROVE  /\ ~pool'[b].shut => pool'[b].n + Cardinality(Holders(b)') = pool'[b].made
               /\ pool'[b].closed => pool'[b].n = 0 \/ (closer'.at = "drain" /\ closer'.cur = b)
    <3>1. CASE b = a
      <4>1. /\ pool[a].n \in Int /\ pool[a].made \in Int /\ r.n \in Int /\ r.made \in Int
            /\ Cardinality(Holders(a)) \in Nat
        BY PoolRecord, HoldersFinite DEF Pools
      <4>2. ~r.shut => pool[a].n + Cardinality(Holders(a)) = pool[a].made
        BY ConservedMeans
      <4> QED
        BY <1>1, <2>1, <3>1, <4>1, <4>2
    <3>2. CASE b # a
      BY <1>1, <2>1, <2>2, <3>2, ConservedMeans
    <3> QED
      BY <3>1, <3>2
  <2> QED
    BY <2>2 DEF Conserved, Holders
<1> QED
  BY <1>2, <1>3, <1>4, <1>5 DEF Tried

\* The pool is filled by one connection, is full, or its channel was closed.
LEMMA FillKeeps == ASSUME MqInv, Fill PROVE MqInv'
<1> USE DEF MqInv, mutex, pubs
<1> PICK a \in Addr : a = poll.cur /\ pool[a] # None
  BY DEF Fill, Backed
<1>1. UNCHANGED <<addrs, mutex, pubs, polls, closer>> /\ poll.at = "fill"
  BY DEF Fill
<1>2. CASE UNCHANGED pool /\ (\/ poll' = [poll EXCEPT !.at = "connect", !.cur = None]
                              \/ poll' = [poll EXCEPT !.at = "panic"])
  <2>1. /\ poll' \in [at : {"wait", "connect", "fill", "lock", "exit", "panic"},
                 answer : SUBSET Addr, todo : SUBSET Addr, cur : Addr \cup {None}]
        /\ poll'.answer = poll.answer /\ poll'.todo = poll.todo
        /\ poll'.at \in {"connect", "panic"}
    BY <1>2 DEF TypeOK
  <2>2. TypeOK'
    BY <1>1, <1>2, <2>1 DEF TypeOK
  <2>3. Backed'
    BY <1>1, <1>2, <2>1 DEF Backed
  <2> QED
    BY <1>1, <1>2, <2>2, <2>3 DEF Tried, ShutFirst, Conserved
<1>3. CASE /\ pool[a].made < Cap /\ ~pool[a].shut
           /\ pool' = [pool EXCEPT ![a] = OneMore(@)]
           /\ UNCHANGED poll
  <2> DEFINE r == OneMore(pool[a])
  <2>1. pool' = [pool EXCEPT ![a] = r]
    BY <1>3
  <2>2. pool[a].n < Cap
    <3>1. pool[a].n + Cardinality(Holders(a)) = pool[a].made
      BY <1>3, ConservedMeans
    <3> QED
      BY <1>3, <3>1, PoolRecord, HoldersFinite, MqAssumption
  <2>3. ~pool[a].closed
    BY <1>3 DEF ShutFirst
  <2>4. /\ r \in Pools /\ r.n = pool[a].n + 1 /\ r.made = pool[a].made + 1
        /\ ~r.shut /\ ~r.closed
    <3>1. ASSUME NEW x \in Pools, x.n < Cap, x.made < Cap, ~x.shut, ~x.closed
          PROVE  LET y == OneMore(x)
                 IN y \in Pools /\ y.n = x.n + 1 /\ y.made = x.made + 1 /\ ~y.shut /\ ~y.closed
      <4>1. x.n + 1 \in 0 .. Cap /\ x.made + 1 \in 0 .. Cap
        BY <3>1, MqAssumption DEF Pools
      <4> QED
        BY <3>1, <4>1 DEF Pools, OneMore
    <3> QED
      BY <1>3, <2>2, <2>3, <3>1, PoolRecord
  <2> HIDE DEF r
  <2>5. /\ r.shut = pool[a].shut
        /\ ~r.shut => r.n - pool[a].n = r.made - pool[a].made /\ ~r.closed
        /\ closer' \in [at : {"no", "next", "flag", "drain", "done"}, todo : SUBSET Addr,
                        cur : Addr \cup {None}]
    <3>1. pool[a].n \in Int /\ pool[a].made \in Int /\ pool[a].shut = FALSE
      BY <1>3, PoolRecord
    <3>2. r.shut = FALSE
      BY <2>4 DEF Pools
    <3>3. closer' \in [at : {"no", "next", "flag", "drain", "done"}, todo : SUBSET Addr,
                        cur : Addr \cup {None}]
      BY <1>1 DEF TypeOK
    <3>4. r.n - pool[a].n = r.made - pool[a].made
      BY <2>4, <3>1
    <3> QED
      BY <2>4, <3>1, <3>2, <3>3, <3>4
  <2> QED
    BY <1>1, <1>3, <2>1, <2>4, <2>5, ChannelKeeps
<1> QED
  BY <1>2, <1>3 DEF Fill

LEMMA WantAddrsKeeps == ASSUME MqInv, WantAddrs PROVE MqInv'
<1> USE DEF MqInv, mutex, pubs
<1>1. TypeOK'
  BY DEF WantAddrs, TypeOK
<1>2. Backed'
  BY DEF WantAddrs, Backed, TypeOK
<1> QED
  BY <1>1, <1>2 DEF WantAddrs, Tried, ShutFirst, Conserved

LEMMA SetAddrsKeeps == ASSUME MqInv, SetAddrs PROVE MqInv'
<1> USE DEF MqInv, mutex, pubs
<1>1. \A a \in poll.answer : a \in Addr /\ pool[a] # None
  BY DEF SetAddrs, Backed, TypeOK
<1>2. TypeOK'
  BY <1>1 DEF SetAddrs, TypeOK, NoPoll
<1>3. Backed'
  BY DEF SetAddrs, Backed, NoPoll
<1> QED
  BY <1>2, <1>3 DEF SetAddrs, Tried, ShutFirst, Conserved

LEMMA LoopExitKeeps == ASSUME MqInv, LoopExit PROVE MqInv'
<1> USE DEF MqInv, mutex, pubs
<1>1. TypeOK'
  BY DEF LoopExit, TypeOK, NoPoll
<1>2. Backed'
  BY DEF LoopExit, Backed, NoPoll
<1> QED
  BY <1>1, <1>2 DEF LoopExit, Tried, ShutFirst, Conserved

-----------------------------------------------------------------------------
(* Close *)

LEMMA CloseKeeps == ASSUME MqInv, Close \/ CloseExit PROVE MqInv'
<1> USE DEF MqInv, mutex, pubs
<1>1. closer' \in [at : {"no", "next", "flag", "drain", "done"}, todo : SUBSET Addr, cur : Addr \cup {None}]
      /\ closer'.at \notin {"flag", "drain"} /\ closer.at # "drain"
  <2>1. CASE Close
    BY <2>1 DEF Close, Closer, NoClose
  <2>2. CASE CloseExit
    BY <2>2 DEF CloseExit, Closer, TypeOK
  <2> QED
    BY <2>1, <2>2
<1>2. UNCHANGED <<addrs, pool, mutex, pubs, polls, poll>>
  BY DEF Close, CloseExit
<1>3. TypeOK'
  BY <1>1, <1>2 DEF TypeOK
<1>4. Backed'
  BY <1>1, <1>2 DEF Backed
<1> QED
  BY <1>1, <1>2, <1>3, <1>4 DEF Tried, ShutFirst, Conserved

\* The channel of a pool is closed: nothing is counted there any more.
LEMMA CloseChanKeeps == ASSUME MqInv, CloseChan PROVE MqInv'
<1> USE DEF MqInv, mutex, pubs
<1> PICK a \in Addr : /\ pool[a] # None /\ ~pool[a].shut
                      /\ pool' = [pool EXCEPT ![a].shut = TRUE]
                      /\ closer' = [closer EXCEPT !.at = "flag", !.cur = a]
  BY DEF CloseChan
<1>1. UNCHANGED <<addrs, mutex, pubs, polls, poll>> /\ closer.at = "next"
  BY DEF CloseChan, Closer
<1> DEFINE r == [pool[a] EXCEPT !.shut = TRUE]
<1>2. /\ r \in Pools /\ r.shut /\ r.n = pool[a].n /\ r.closed = pool[a].closed
      /\ pool' = [pool EXCEPT ![a] = r]
  BY PoolRecord DEF Pools
<1> HIDE DEF r
<1>3. /\ pool' \in [Addr -> Pools \cup {None}] /\ pool'[a] = r /\ pool'[a] # None
      /\ \A b \in Addr : b # a => pool'[b] = pool[b]
      /\ \A b \in Addr : pool[b] # None => pool'[b] # None
  BY <1>2, PoolUpdate
<1>4. closer' \in [at : {"no", "next", "flag", "drain", "done"}, todo : SUBSET Addr, cur : Addr \cup {None}]
      /\ closer'.cur = a
  BY DEF TypeOK
<1>5. TypeOK'
  BY <1>1, <1>3, <1>4 DEF TypeOK
<1>6. Backed'
  <2>1. \A p \in Pub : pc[p] \in {"recv", "send", "put"} => got[p] \in Addr /\ pool'[got[p]] # None
    BY <1>3 DEF Backed
  <2>2. \A b \in poll.answer : b \in poll.todo \/ pool'[b] # None
    BY <1>3 DEF Backed, TypeOK
  <2> QED
    BY <1>1, <1>2, <1>3, <1>4, <2>1, <2>2 DEF Backed
<1>7. ShutFirst'
  BY <1>2, <1>3 DEF ShutFirst
<1>8. Conserved'
  <2>1. \A b \in Addr : Holders(b)' = Holders(b)
    BY <1>1 DEF Holders
  <2>2. ASSUME NEW b \in Addr, pool'[b] # None
        PROVE  /\ ~pool'[b].shut => pool'[b].n + Cardinality(Holders(b)') = pool'[b].made
               /\ pool'[b].closed => pool'[b].n = 0 \/ (closer'.at = "drain" /\ closer'.cur = b)
    <3>1. CASE b = a
      BY <1>2, <1>3, <3>1 DEF ShutFirst
    <3>2. CASE b # a
      BY <1>1, <1>3, <2>1, <2>2, <3>2, ConservedMeans
    <3> QED
      BY <3>1, <3>2
  <2> QED
    BY <2>2 DEF Conserved, Holders
<1> QED
  BY <1>1, <1>5, <1>6, <1>7, <1>8 DEF Tried

\* The flag is set after the channel was closed ...
LEMMA CloseFlagKeeps == ASSUME MqInv, CloseFlag PROVE MqInv'
<1> USE DEF MqInv, mutex, pubs
<1> DEFINE r(x) == [x EXCEPT !.closed = TRUE]
<1> PICK a \in Addr : a = closer.cur /\ pool[a] # None /\ pool[a].shut
  BY DEF CloseFlag, Closer, Backed
<1>1. /\ UNCHANGED <<addrs, mutex, pubs, polls, poll>> /\ closer.at = "flag"
      /\ pool' = [pool EXCEPT ![a] = r(pool[a])]
      /\ closer' = [closer EXCEPT !.at = "drain"]
  BY DEF CloseFlag, Closer
<1>2. /\ closer' \in [at : {"no", "next", "flag", "drain", "done"}, todo : SUBSET Addr,
                      cur : Addr \cup {None}]
      /\ closer'.at = "drain" /\ closer'.cur = a
  BY <1>1 DEF TypeOK
<1>3. r(pool[a]) \in Pools /\ r(pool[a]).shut
  BY PoolRecord DEF Pools
<1> HIDE DEF r
<1> QED
  BY <1>1, <1>2, <1>3, ChannelKeeps

\* ... and the channel is drained, connection by connection.
LEMMA DrainKeeps == ASSUME MqInv, Drain PROVE MqInv'
<1> USE DEF MqInv, mutex, pubs
<1> PICK a \in Addr : a = closer.cur /\ pool[a] # None /\ pool[a].shut
  BY DEF Drain, Closer, Backed
<1>1. UNCHANGED <<addrs, mutex, pubs, polls, poll>> /\ closer.at = "drain"
  BY DEF Drain, Closer
<1>2. CASE pool[a].n > 0 /\ pool' = [pool EXCEPT ![a].n = @ - 1] /\ UNCHANGED closer
  <2> DEFINE r(x) == [x EXCEPT !.n = @ - 1]
  <2>1. pool' = [pool EXCEPT ![a] = r(pool[a])]
    BY <1>2
  <2>2. r(pool[a]) \in Pools /\ r(pool[a]).shut
    <3>1. ASSUME NEW x \in Pools, x.n > 0 PROVE r(x) \in Pools /\ r(x).shut = x.shut
      BY <3>1, MqAssumption DEF Pools
    <3> QED
      BY <1>2, <3>1, PoolRecord
  <2>3. closer \in [at : {"no", "next", "flag", "drain", "done"}, todo : SUBSET Addr,
                    cur : Addr \cup {None}]
    BY DEF TypeOK
  <2> HIDE DEF r
  <2> QED
    BY <1>1, <1>2, <2>1, <2>2, <2>3, ChannelKeeps
<1>3. CASE pool[a].n = 0 /\ UNCHANGED pool
                         /\ closer' = [closer EXCEPT !.at = "next", !.cur = None]
  <2>1. /\ closer' \in [at : {"no", "next", "flag", "drain", "done"}, todo : SUBSET Addr,
                        cur : Addr \cup {None}]
        /\ closer'.at = "next"
    BY <1>3 DEF TypeOK
  <2>2. TypeOK'
    BY <1>1, <1>3, <2>1 DEF TypeOK
  <2>3. Backed'
    BY <1>1, <1>3, <2>1 DEF Backed
  <2>4. Conserved'
    <3>1. \A b \in Addr : pool[b] # None /\ pool[b].closed => pool[b].n = 0
      BY <1>3, ConservedMeans
    <3> QED
      BY <1>1, <1>3, <3>1 DEF Conserved
  <2> QED
    BY <1>1, <1>3, <2>2, <2>3, <2>4 DEF Tried, ShutFirst
<1> QED
  BY <1>2, <1>3 DEF Drain

-----------------------------------------------------------------------------
(* Publish *)

\* A publisher's step that neither takes nor returns a connection keeps the
\* invariant if the publisher's own state stays in order.
LEMMA PublisherKeeps ==
    ASSUME MqInv, NEW p \in Pub, UNCHANGED <<addrs, pool, polls, poll, closer>>, TypeOK',
           \A q \in Pub : q # p => pc'[q] = pc[q] /\ got'[q] = got[q] /\ try'[q] = try[q],
           pc'[p] \in {"idle", "rlock", "pick", "recv"} => try'[p] = 0,
           pc'[p] = "send" => try'[p] < Tries,
           pc'[p] \in {"recv", "send", "put"} => got'[p] \in Addr /\ pool[got'[p]] # None,
           \A a \in Addr : pool[a] # None /\ ~pool[a].shut => (p \in Holders(a)' <=> p \in Holders(a))
    PROVE  MqInv'
<1> USE DEF MqInv
<1>1. Tried'
  BY DEF Tried
<1>2. Backed'
  BY DEF Backed
<1>3. ShutFirst'
  BY DEF ShutFirst
<1>4. Conserved'
  <2>1. \A a \in Addr : pool[a] # None /\ ~pool[a].shut => Holders(a)' = Holders(a)
    BY DEF Holders
  <2>2. ASSUME NEW a \in Addr, pool'[a] # None
        PROVE  /\ ~pool'[a].shut => pool'[a].n + Cardinality(Holders(a)') = pool'[a].made
               /\ pool'[a].closed => pool'[a].n = 0 \/ (closer'.at = "drain" /\ closer'.cur = a)
    BY <2>1, <2>2, ConservedMeans
  <2> QED
    BY <2>2 DEF Conserved, Holders
<1> QED
  BY <1>1, <1>2, <1>3, <1>4

LEMMA PublishKeeps == ASSUME MqInv, NEW p \in Pub, Publish(p) PROVE MqInv'
<1> USE DEF MqInv
<1>1. UNCHANGED <<addrs, pool, readers, writers, polls, poll, closer>> /\ pc[p] = "idle" /\ try[p] = 0
  BY DEF Publish, At, mutex, Tried
<1>2. count' \in [Pub -> 0 .. MaxPublish] /\ sent' \in [Pub -> BOOLEAN]
  BY MqAssumption DEF Publish, TypeOK
<1>3. CASE Done(p, "error")
  <2>1. TypeOK'
    BY <1>1, <1>2, <1>3, DoneEffect DEF TypeOK
  <2> QED
    BY <1>1, <1>3, <2>1, DoneEffect, PublisherKeeps DEF Holders
<1>4. CASE Goto(p, "rlock") /\ UNCHANGED <<res, got, try>>
  <2>1. TypeOK'
    BY <1>1, <1>2, <1>4, GotoEffect DEF TypeOK
  <2> QED
    BY <1>1, <1>4, <2>1, GotoEffect, PublisherKeeps DEF Holders
<1> QED
  BY <1>3, <1>4 DEF Publish

LEMMA RLockKeeps == ASSUME MqInv, NEW p \in Pub, RLock(p) PROVE MqInv'
<1> USE DEF MqInv
<1>1. /\ UNCHANGED <<addrs, pool, writers, got, try, count, sent, res, polls, poll, closer>>
      /\ pc[p] = "rlock" /\ try[p] = 0 /\ Goto(p, "pick") /\ readers' \subseteq Pub
  BY DEF RLock, At, Tried, TypeOK
<1>2. TypeOK'
  BY <1>1, GotoEffect DEF TypeOK
<1> QED
  BY <1>1, <1>2, GotoEffect, PublisherKeeps DEF Holders

LEMMA PickKeeps == ASSUME MqInv, NEW p \in Pub, Pick(p) PROVE MqInv'
<1> USE DEF MqInv
<1>1. /\ UNCHANGED <<addrs, pool, writers, count, sent, polls, poll, closer>>
      /\ pc[p] = "pick" /\ try[p] = 0 /\ readers' \subseteq Pub
  BY DEF Pick, At, Tried, TypeOK
<1>2. CASE Goto(p, "panic") /\ UNCHANGED <<got, try, res>>
  <2>1. TypeOK'
    BY <1>1, <1>2, GotoEffect DEF TypeOK
  <2> QED
    BY <1>1, <1>2, <2>1, GotoEffect, PublisherKeeps DEF Holders
<1>3. CASE Done(p, "error")
  <2>1. TypeOK'
    BY <1>1, <1>3, DoneEffect DEF TypeOK
  <2> QED
    BY <1>1, <1>3, <2>1, DoneEffect, PublisherKeeps DEF Holders
<1>4. ASSUME NEW a \in addrs, got' = [got EXCEPT ![p] = a], Goto(p, "recv"), UNCHANGED <<try, res>>
      PROVE  MqInv'
  <2>1. a \in Addr /\ pool[a] # None
    BY DEF TypeOK
  <2>2. /\ got' \in [Pub -> Addr \cup {None}] /\ got'[p] = a
        /\ \A q \in Pub : q # p => got'[q] = got[q]
    BY <1>4, <2>1 DEF TypeOK
  <2>3. TypeOK'
    BY <1>1, <1>4, <2>2, GotoEffect DEF TypeOK
  <2> QED
    BY <1>1, <1>4, <2>1, <2>2, <2>3, GotoEffect, PublisherKeeps DEF Holders
<1> QED
  BY <1>2, <1>3, <1>4 DEF Pick

LEMMA SendKeeps == ASSUME MqInv, NEW p \in Pub, Send(p) PROVE MqInv'
<1> USE DEF MqInv
<1>1. /\ UNCHANGED <<addrs, pool, readers, got, count, res, polls, poll, closer>>
      /\ pc[p] = "send" /\ try[p] \in 0 .. Tries /\ try[p] < Tries
      /\ got[p] \in Addr /\ pool[got[p]] # None /\ writers' \subseteq Pub \cup {Loop}
  BY DEF Send, At, Tried, Backed, TypeOK
<1>2. /\ try' \in [Pub -> 0 .. Tries] /\ try'[p] = try[p] + 1
      /\ \A q \in Pub : q # p => try'[q] = try[q]
  BY <1>1 DEF Send, TypeOK, Tries
<1>3. sent' \in [Pub -> BOOLEAN]
  BY DEF Send, TypeOK
<1>4. CASE Goto(p, "put")
  <2>1. TypeOK'
    BY <1>1, <1>2, <1>3, <1>4, GotoEffect DEF TypeOK
  <2> QED
    BY <1>1, <1>2, <1>4, <2>1, GotoEffect, PublisherKeeps DEF Holders
<1>5. CASE try'[p] < Tries /\ UNCHANGED pc
  <2>1. TypeOK'
    BY <1>1, <1>2, <1>3, <1>5 DEF TypeOK
  <2> QED
    BY <1>1, <1>2, <1>5, <2>1, PublisherKeeps DEF Holders
<1> QED
  BY <1>4, <1>5 DEF Send

\* A connection moves from the channel to p.
LEMMA RecvKeeps == ASSUME MqInv, NEW p \in Pub, Recv(p) PROVE MqInv'
<1> USE DEF MqInv
<1> PICK a \in Addr : a = got[p] /\ pool[a] # None
  BY DEF Recv, At, Backed
<1> DEFINE r == [pool[a] EXCEPT !.n = @ - 1]
<1>1. /\ UNCHANGED <<addrs, writers, got, try, count, sent, res, polls, poll, closer>>
      /\ pc[p] = "recv" /\ try[p] = 0 /\ Goto(p, "send") /\ readers' \subseteq Pub
      /\ pool[a].n > 0
      /\ pool' = [pool EXCEPT ![a] = r]
  BY DEF Recv, At, Tried, TypeOK
<1>2. p \notin Holders(a)
  BY <1>1 DEF Holders
<1>3. \A b \in Addr : Holders(b)' = IF b = a THEN Holders(a) \cup {p} ELSE Holders(b)
  BY <1>1, GotoEffect DEF Holders
<1>4. /\ r \in Pools /\ r.n = pool[a].n - 1 /\ r.made = pool[a].made
      /\ r.shut = pool[a].shut /\ r.closed = pool[a].closed
  <2>1. ASSUME NEW x \in Pools, x.n > 0
        PROVE  LET y == [x EXCEPT !.n = @ - 1]
               IN /\ y \in Pools /\ y.n = x.n - 1 /\ y.made = x.made
                  /\ y.shut = x.shut /\ y.closed = x.closed
    BY <2>1, MqAssumption DEF Pools
  <2> QED
    BY <1>1, <2>1, PoolRecord
<1> HIDE DEF r
<1>5. /\ pool' \in [Addr -> Pools \cup {None}] /\ pool'[a] = r /\ pool'[a] # None
      /\ \A b \in Addr : b # a => pool'[b] = pool[b]
      /\ \A b \in Addr : pool[b] # None => pool'[b] # None
  BY <1>1, <1>4, PoolUpdate
<1>6. TypeOK'
  BY <1>1, <1>5, GotoEffect DEF TypeOK
<1>7. Tried'
  BY <1>1, GotoEffect DEF Tried, Tries
<1>8. Backed'
  <2>1. \A q \in Pub : pc'[q] \in {"recv", "send", "put"} => got[q] \in Addr /\ pool'[got[q]] # None
    BY <1>1, <1>5, GotoEffect DEF Backed
  <2>2. \A b \in poll.answer : b \in poll.todo \/ pool'[b] # None
    BY <1>5 DEF Backed, TypeOK
  <2>3. closer.at \in {"flag", "drain"} =>
          closer.cur \in Addr /\ pool'[closer.cur] # None /\ pool'[closer.cur].shut
    BY <1>4, <1>5 DEF Backed
  <2>4. poll.at = "fill" => poll.cur \in Addr /\ pool'[poll.cur] # None
    BY <1>5 DEF Backed
  <2> QED
    BY <1>1, <2>1, <2>2, <2>3, <2>4 DEF Backed
<1>9. ShutFirst'
  BY <1>1, <1>4, <1>5 DEF ShutFirst
<1>10. Conserved'
  <2>1. Cardinality(Holders(a)') = Cardinality(Holders(a)) + 1
    <3>1. Holders(a)' = Holders(a) \cup {p}
      BY <1>3
    <3>2. Cardinality(Holders(a) \cup {p}) = Cardinality(Holders(a)) + 1
      BY <1>2, HoldersFinite, FS_AddElement
    <3> QED
      BY <3>1, <3>2
  <2>2. ASSUME NEW b \in Addr, pool'[b] # None
        PROVE  /\ ~pool'[b].shut => pool'[b].n + Cardinality(Holders(b)') = pool'[b].made
               /\ pool'[b].closed => pool'[b].n = 0 \/ (closer'.at = "drain" /\ closer'.cur = b)
    <3>1. CASE b = a
      <4>1. /\ pool[a].n \in 0 .. Cap /\ pool[a].n > 0 /\ Cardinality(Holders(a)) \in Nat
        BY <1>1, PoolRecord, HoldersFinite
      <4>2. /\ ~pool[a].shut => pool[a].n + Cardinality(Holders(a)) = pool[a].made
            /\ pool[a].closed => closer'.at = "drain" /\ closer'.cur = a
        BY <1>1, <4>1, ConservedMeans
      <4> QED
        BY <1>4, <1>5, <2>1, <3>1, <4>1, <4>2, MqAssumption
    <3>2. CASE b # a
      BY <1>1, <1>3, <1>5, <2>2, <3>2, ConservedMeans
    <3> QED
      BY <3>1, <3>2
  <2> QED
    BY <2>2 DEF Conserved, Holders
<1> QED
  BY <1>6, <1>7, <1>8, <1>9, <1>10

\* A connection moves from p back to the channel, which has room for it: p
\* held one of those it was made with.
LEMMA PutBackKeeps ==
    ASSUME MqInv, NEW p \in Pub, Put(p), ~pool[got[p]].closed, ~pool[got[p]].shut
    PROVE  MqInv'
<1> USE DEF MqInv
<1>1. pc[p] = "put" /\ UNCHANGED <<addrs, readers, count, sent, polls, poll, closer>>
      /\ writers' \subseteq Pub \cup {Loop}
  BY DEF Put, At, TypeOK
<1> PICK a \in Addr : a = got[p] /\ pool[a] # None
  BY <1>1 DEF Backed
<1>2. p \in Holders(a)
  BY <1>1 DEF Holders
<1>3. pool[a].n \in Nat /\ pool[a].made \in 0 .. Cap /\ Cardinality(Holders(a)) \in Nat
  BY PoolRecord, HoldersFinite, MqAssumption
<1>4. Cardinality(Holders(a)) > 0
  BY <1>2, HoldersFinite, FS_EmptySet
<1>5. pool[a].n + Cardinality(Holders(a)) = pool[a].made
  BY ConservedMeans
<1>6. pool[a].n < Cap
  BY <1>3, <1>4, <1>5, MqAssumption
<1> DEFINE r == [pool[a] EXCEPT !.n = @ + 1]
<1>7. pool' = [pool EXCEPT ![a] = r] /\ Done(p, "nil")
  BY <1>6 DEF Put
<1>8. /\ r \in Pools /\ r.n = pool[a].n + 1 /\ r.made = pool[a].made
      /\ ~r.shut /\ ~r.closed
  <2>1. ASSUME NEW x \in Pools, x.n < Cap, ~x.shut, ~x.closed
        PROVE  LET y == [x EXCEPT !.n = @ + 1]
               IN y \in Pools /\ y.n = x.n + 1 /\ y.made = x.made /\ ~y.shut /\ ~y.closed
    BY <2>1, MqAssumption DEF Pools
  <2> QED
    BY <1>6, <2>1, PoolRecord
<1> HIDE DEF r
<1>9. /\ pool' \in [Addr -> Pools \cup {None}] /\ pool'[a] = r /\ pool'[a] # None
      /\ \A b \in Addr : b # a => pool'[b] = pool[b]
      /\ \A b \in Addr : pool[b] # None => pool'[b] # None
  BY <1>7, <1>8, PoolUpdate
<1>10. \A b \in Addr : Holders(b)' = IF b = a THEN Holders(a) \ {p} ELSE Holders(b)
  BY <1>7, DoneEffect, NoneAssumption DEF Holders
<1>11. TypeOK'
  BY <1>1, <1>7, <1>9, DoneEffect DEF TypeOK
<1>12. Tried'
  BY <1>7, DoneEffect DEF Tried
<1>13. Backed'
  <2>1. \A q \in Pub : pc'[q] \in {"recv", "send", "put"} => got'[q] \in Addr /\ pool'[got'[q]] # None
    BY <1>7, <1>9, DoneEffect DEF Backed
  <2>2. \A b \in poll.answer : b \in poll.todo \/ pool'[b] # None
    BY <1>9 DEF Backed, TypeOK
  <2>3. closer.at \in {"flag", "drain"} =>
          closer.cur \in Addr /\ pool'[closer.cur] # None /\ pool'[closer.cur].shut
    BY <1>9 DEF Backed
  <2>4. poll.at = "fill" => poll.cur \in Addr /\ pool'[poll.cur] # None
    BY <1>9 DEF Backed
  <2> QED
    BY <1>1, <2>1, <2>2, <2>3, <2>4 DEF Backed
<1>14. ShutFirst'
  BY <1>8, <1>9 DEF ShutFirst
<1>15. Conserved'
  <2>1. Cardinality(Holders(a)') = Cardinality(Holders(a)) - 1
    BY <1>2, <1>10, HoldersFinite, FS_RemoveElement
  <2>2. ASSUME NEW b \in Addr, pool'[b] # None
        PROVE  /\ ~pool'[b].shut => pool'[b].n + Cardinality(Holders(b)') = pool'[b].made
               /\ pool'[b].closed => pool'[b].n = 0 \/ (closer'.at = "drain" /\ closer'.cur = b)
    <3>1. CASE b = a
      BY <1>3, <1>5, <1>8, <1>9, <2>1, <3>1
    <3>2. CASE b # a
      BY <1>1, <1>9, <1>10, <2>2, <3>2, ConservedMeans
    <3> QED
      BY <3>1, <3>2
  <2> QED
    BY <2>2 DEF Conserved, Holders
<1> QED
  BY <1>11, <1>12, <1>13, <1>14, <1>15

LEMMA PutKeeps == ASSUME MqInv, NEW p \in Pub, Put(p) PROVE MqInv'
<1> USE DEF MqInv
<1>1. /\ pc[p] = "put" /\ UNCHANGED <<addrs, readers, count, sent, polls, poll, closer>>
      /\ writers' \subseteq Pub \cup {Loop}
      /\ got[p] \in Addr /\ pool[got[p]] # None
  BY DEF Put, At, Backed, TypeOK
<1>2. pool[got[p]].closed => pool[got[p]].shut
  BY <1>1 DEF ShutFirst
<1>3. CASE pool[got[p]].closed
  <2>1. Done(p, "error") /\ UNCHANGED pool
    BY <1>3 DEF Put
  <2>2. TypeOK'
    BY <1>1, <2>1, DoneEffect DEF TypeOK
  <2> QED
    BY <1>1, <1>2, <1>3, <2>1, <2>2, DoneEffect, PublisherKeeps DEF Holders
<1>4. CASE ~pool[got[p]].closed /\ pool[got[p]].shut
  <2>1. Goto(p, "panic") /\ UNCHANGED <<pool, got, try, res>>
    BY <1>4 DEF Put
  <2>2. TypeOK'
    BY <1>1, <2>1, GotoEffect DEF TypeOK
  <2> QED
    BY <1>1, <1>4, <2>1, <2>2, GotoEffect, PublisherKeeps DEF Holders
<1> QED
  BY <1>3, <1>4, PutBackKeeps

-----------------------------------------------------------------------------
(* The theorems *)

\* The invariant holds of every reachable state.
LEMMA MqInvariant == Spec => []MqInv
<1>1. Init => MqInv
  <2> SUFFICES ASSUME Init PROVE MqInv
    OBVIOUS
  <2>1. TypeOK
    BY MqAssumption DEF Init, TypeOK, NoPoll, NoClose, Tries
  <2>2. Tried /\ Backed
    BY DEF Init, Tried, Backed, NoPoll, NoClose
  <2>3. ShutFirst /\ Conserved
    BY DEF Init, ShutFirst, Conserved
  <2> QED
    BY <2>1, <2>2, <2>3 DEF MqInv
<1>2. MqInv /\ [Next]_vars => MqInv'
  <2> SUFFICES ASSUME MqInv, [Next]_vars PROVE MqInv'
    OBVIOUS
  <2>1. CASE LoopStep
    BY <2>1, QueryKeeps, ConnectKeeps, FillKeeps, WantAddrsKeeps, SetAddrsKeeps, LoopExitKeeps DEF LoopStep
  <2>2. CASE Close \/ CloseStep
    BY <2>2, CloseKeeps, CloseChanKeeps, CloseFlagKeeps, DrainKeeps DEF CloseStep
  <2>3. ASSUME NEW p \in Pub, Publish(p) \/ PubStep(p) PROVE MqInv'
    BY <2>3, PublishKeeps, RLockKeeps, PickKeeps, RecvKeeps, SendKeeps, PutKeeps DEF PubStep
  <2>4. CASE UNCHANGED vars
    <3>1. TypeOK' /\ Tried' /\ Backed'
      BY <2>4 DEF MqInv, vars, mutex, pubs, TypeOK, Tried, Backed
    <3> QED
      BY <2>4, <3>1 DEF MqInv, vars, mutex, pubs, ShutFirst, Conserved
  <2> QED
    BY <2>1, <2>2, <2>3, <2>4 DEF Next
<1> QED
  BY <1>1, <1>2, PTL DEF Spec

\* Every reachable state is well typed: three tries at most, no channel above
\* poolCap, and a pool for every address that can be picked
\* (producer.go:160-169, 211-218, 240-246).
THEOREM TypeCorrect == Spec => []TypeOK
<1>1. MqInv => TypeOK
  BY DEF MqInv
<1> QED
  BY <1>1, MqInvariant, PTL

\* No connection is lost or duplicated before Close, whatever fails and
\* however publishers, lookups and Close interleave (producer.go:192-271).
THEOREM ConnectionsConserved == Spec => []Conserved
<1>1. MqInv => Conserved
  BY DEF MqInv
<1> QED
  BY <1>1, MqInvariant, PTL
=============================================================================

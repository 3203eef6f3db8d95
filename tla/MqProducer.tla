----------------------------- MODULE MqProducer -----------------------------
(***************************************************************************)
(* components/mq/producer.go: a pool of connections per nsqd.  A loop asks *)
(* nsqlookupd for the nsqds, connects to the new ones and replaces the     *)
(* address list; publishers take a connection out of the channel of a      *)
(* random address, publish (three tries) and put it back; Close closes     *)
(* every channel.  A channel is the number of connections in it: they are  *)
(* all the same *nsq.Producer.  nsqlookupd and nsqd are external.          *)
(*                                                                         *)
(* addrMtx is a Go RWMutex: a writer that waits keeps new readers out.     *)
(* getProducerConn holds it for reading while it waits for a connection.   *)
(***************************************************************************)
EXTENDS Integers, FiniteSets

CONSTANTS Addr,        \* nsqd addresses
          Pub,         \* publishing goroutines
          Cap,         \* poolCap
          Answers,     \* what nsqlookupd may answer: sets of addresses
          Faults,      \* which calls may fail: "lookup", "connect", "publish"
          Closing,     \* BOOLEAN: Close is called
          None,
          MaxPolls,    \* bound: lookups
          MaxPublish   \* bound: Publish calls of one goroutine

ASSUME MqAssumption ==
    /\ Cap \in Nat /\ MaxPolls \in Nat /\ MaxPublish \in Nat
    /\ Faults \subseteq {"lookup", "connect", "publish"} /\ Closing \in BOOLEAN /\ Answers \subseteq SUBSET Addr

Loop == "loop"      \* the lookupd goroutine, as a user of addrMtx
Tries == 3

VARIABLES addrs,    \* nsqdTCPAddrs
          pool,     \* pool[a]: connections[a], or None
          readers,  \* who holds addrMtx for reading
          writers,  \* who waits for addrMtx for writing
          pc,       \* pc[p]: where publisher p is
          got,      \* got[p]: the address whose connection p uses
          try,      \* try[p]: publishes of this call so far
          count,    \* count[p]: Publish calls p made
          sent,     \* sent[p]: nsqd took the message of this call
          res,      \* res[p]: what Publish last returned
          polls,    \* lookups so far
          poll,     \* the lookup under way
          closer    \* Close: where it is, the pools it must close, the current one

mutex == <<readers, writers>>
pubs == <<pc, got, try, count, sent, res>>
vars == <<addrs, pool, mutex, pubs, polls, poll, closer>>

Pools == [n : 0 .. Cap, made : 0 .. Cap, shut : BOOLEAN, closed : BOOLEAN]
NewPool == [n |-> 0, made |-> 0, shut |-> FALSE, closed |-> FALSE]
NoPoll == [at |-> "wait", answer |-> {}, todo |-> {}, cur |-> None]
NoClose == [at |-> "no", todo |-> {}, cur |-> None]

ASSUME PubAssumption == IsFiniteSet(Pub)
ASSUME NoneAssumption == None \notin Addr /\ None \notin Pools

\* A panic of the lookupd goroutine, which nobody recovers, ends the process.
Alive == poll.at # "panic"
At(p, l) == Alive /\ pc[p] = l
Closer(l) == Alive /\ closer.at = l
Goto(p, l) == pc' = [pc EXCEPT ![p] = l]

\* addrMtx.  The writers' sections are single steps: a writer acquires and
\* releases in one.
CanRead == writers = {}
CanWrite(t) == t \in writers /\ readers = {}

-----------------------------------------------------------------------------
(* queryLookupd, by lookupdLoop *)

\* The ticker fires: an answer of the endpoint whose turn it is, or three
\* failures.  After Close the select may still choose the ticker.
Query ==
    /\ poll = NoPoll /\ polls < MaxPolls
    /\ polls' = polls + 1
    /\ \/ \E A \in Answers : poll' = [NoPoll EXCEPT !.at = "connect", !.answer = A, !.todo = A]
       \/ "lookup" \in Faults /\ UNCHANGED poll
    /\ UNCHANGED <<addrs, pool, mutex, pubs, closer>>

\* ConnectToNSQD: nothing for an address that has a pool; else an empty pool,
\* which stays empty when the connection cannot be made ...
ConnectToNSQD ==
    /\ poll.at = "connect"
    /\ \E a \in poll.todo :
          IF pool[a] # None
          THEN poll' = [poll EXCEPT !.todo = @ \ {a}] /\ UNCHANGED pool
          ELSE /\ pool' = [pool EXCEPT ![a] = NewPool]
               /\ \/ poll' = [poll EXCEPT !.todo = @ \ {a}, !.at = "fill", !.cur = a]
                  \/ "connect" \in Faults /\ poll' = [poll EXCEPT !.todo = @ \ {a}]
    /\ UNCHANGED <<addrs, mutex, pubs, polls, closer>>

OneMore(x) == [n |-> x.n + 1, made |-> x.made + 1, shut |-> x.shut, closed |-> x.closed]

\* ... and else is filled connection by connection.  Close may have closed
\* the channel meanwhile.
Fill ==
    /\ poll.at = "fill"
    /\ LET a == poll.cur
       IN \/ /\ pool[a].made = Cap
             /\ poll' = [poll EXCEPT !.at = "connect", !.cur = None]
             /\ UNCHANGED pool
          \/ /\ pool[a].made < Cap /\ ~pool[a].shut
             /\ pool' = [pool EXCEPT ![a] = OneMore(@)]
             /\ UNCHANGED poll
          \/ /\ pool[a].made < Cap /\ pool[a].shut
             /\ poll' = [poll EXCEPT !.at = "panic"]
             /\ UNCHANGED pool
    /\ UNCHANGED <<addrs, mutex, pubs, polls, closer>>

\* Mutant: the list is replaced before the connections are made.
WantAddrsMutant ==
    /\ poll.at = "connect"
    /\ poll' = [poll EXCEPT !.at = "lock"]
    /\ writers' = writers \cup {Loop}
    /\ UNCHANGED <<addrs, pool, readers, pubs, polls, closer>>

WantAddrs ==
    /\ poll.at = "connect" /\ poll.todo = {}
    /\ poll' = [poll EXCEPT !.at = "lock"]
    /\ writers' = writers \cup {Loop}
    /\ UNCHANGED <<addrs, pool, readers, pubs, polls, closer>>

SetAddrs ==
    /\ poll.at = "lock" /\ CanWrite(Loop)
    /\ addrs' = poll.answer
    /\ poll' = NoPoll
    /\ writers' = writers \ {Loop}
    /\ UNCHANGED <<pool, readers, pubs, polls, closer>>

\* lookupdLoop sees exitChan closed.
LoopExit ==
    /\ poll = NoPoll /\ closer.at = "done"
    /\ poll' = [NoPoll EXCEPT !.at = "exit"]
    /\ UNCHANGED <<addrs, pool, mutex, pubs, polls, closer>>

-----------------------------------------------------------------------------
(* Publish *)

Done(p, r) ==
    /\ Goto(p, "idle")
    /\ res' = [res EXCEPT ![p] = r]
    /\ got' = [got EXCEPT ![p] = None]
    /\ try' = [try EXCEPT ![p] = 0]

\* The lengths are read without the lock.
Publish(p) ==
    /\ At(p, "idle") /\ count[p] < MaxPublish
    /\ count' = [count EXCEPT ![p] = @ + 1]
    /\ sent' = [sent EXCEPT ![p] = FALSE]
    /\ IF addrs = {} THEN Done(p, "error")
       ELSE Goto(p, "rlock") /\ UNCHANGED <<res, got, try>>
    /\ UNCHANGED <<addrs, pool, mutex, polls, poll, closer>>

RLock(p) ==
    /\ At(p, "rlock") /\ CanRead
    /\ readers' = readers \cup {p}
    /\ Goto(p, "pick")
    /\ UNCHANGED <<addrs, pool, writers, got, try, count, sent, res, polls, poll, closer>>

\* rand.Intn(0) panics; a closed pool is an error.
Pick(p) ==
    /\ At(p, "pick")
    /\ \/ /\ addrs = {}
          /\ Goto(p, "panic")
          /\ readers' = readers \ {p}
          /\ UNCHANGED <<got, try, res>>
       \/ \E a \in addrs :
             IF pool[a].closed
             THEN /\ readers' = readers \ {p}
                  /\ Done(p, "error")
             ELSE /\ got' = [got EXCEPT ![p] = a]
                  /\ Goto(p, "recv")
                  /\ UNCHANGED <<readers, try, res>>
    /\ UNCHANGED <<addrs, pool, writers, count, sent, polls, poll, closer>>

\* Wait for a connection, holding addrMtx.  On a closed and empty channel the
\* loop receives ok = false for ever.
Recv(p) ==
    /\ At(p, "recv") /\ pool[got[p]].n > 0
    /\ pool' = [pool EXCEPT ![got[p]].n = @ - 1]
    /\ readers' = readers \ {p}
    /\ Goto(p, "send")
    /\ UNCHANGED <<addrs, writers, got, try, count, sent, res, polls, poll, closer>>

\* producer.Publish; after the third failure, or a success, the connection
\* goes back.
Send(p) ==
    /\ At(p, "send")
    /\ try' = [try EXCEPT ![p] = @ + 1]
    /\ \/ /\ sent' = [sent EXCEPT ![p] = TRUE]
          /\ Goto(p, "put") /\ writers' = writers \cup {p}
       \/ /\ "publish" \in Faults
          /\ UNCHANGED sent
          /\ IF try'[p] < Tries THEN UNCHANGED <<pc, writers>>
             ELSE Goto(p, "put") /\ writers' = writers \cup {p}
    /\ UNCHANGED <<addrs, pool, readers, got, count, res, polls, poll, closer>>

\* Mutant: after a failed publish the connection is not put back.
PutMutant(p) ==
    /\ At(p, "put") /\ CanWrite(p)
    /\ writers' = writers \ {p}
    /\ pool' = [pool EXCEPT ![got[p]].n = IF sent[p] THEN @ + 1 ELSE @]
    /\ Done(p, "nil")
    /\ UNCHANGED <<addrs, readers, count, sent, polls, poll, closer>>

\* putProducerConn: its error is what Publish returns, also after a publish
\* that failed.  Sending to a channel that is closed already panics.
Put(p) ==
    /\ At(p, "put") /\ CanWrite(p)
    /\ LET a == got[p]
       IN IF pool[a].closed
          THEN Done(p, "error") /\ UNCHANGED pool
          ELSE IF pool[a].shut THEN Goto(p, "panic") /\ UNCHANGED <<pool, got, try, res>>
          ELSE IF pool[a].n < Cap
          THEN /\ pool' = [pool EXCEPT ![a].n = @ + 1]
               /\ Done(p, "nil")
          ELSE Done(p, "error") /\ UNCHANGED pool     \* "pool is filled"
    /\ writers' = writers \ {p}
    /\ UNCHANGED <<addrs, readers, count, sent, polls, poll, closer>>

-----------------------------------------------------------------------------
(* Close: for each pool, close the channel, set the flag and drain it.     *)
(* It holds mtx only, so publishers and the lookup go on meanwhile.        *)

Close ==
    /\ Closing /\ Closer("no")
    /\ closer' = [NoClose EXCEPT !.at = "next", !.todo = {a \in Addr : pool[a] # None}]
    /\ UNCHANGED <<addrs, pool, mutex, pubs, polls, poll>>

\* A pool added while the map is ranged over may be visited or not.
CloseChan ==
    /\ Closer("next")
    /\ \E a \in Addr :
          /\ pool[a] # None /\ ~pool[a].shut
          /\ pool' = [pool EXCEPT ![a].shut = TRUE]
          /\ closer' = [closer EXCEPT !.at = "flag", !.cur = a]
    /\ UNCHANGED <<addrs, mutex, pubs, polls, poll>>

CloseFlag ==
    /\ Closer("flag")
    /\ pool' = [pool EXCEPT ![closer.cur].closed = TRUE]
    /\ closer' = [closer EXCEPT !.at = "drain"]
    /\ UNCHANGED <<addrs, mutex, pubs, polls, poll>>

\* Publishers that wait for a connection take from the channel beside Close.
Drain ==
    /\ Closer("drain")
    /\ LET a == closer.cur
       IN \/ /\ pool[a].n > 0
             /\ pool' = [pool EXCEPT ![a].n = @ - 1]
             /\ UNCHANGED closer
          \/ /\ pool[a].n = 0
             /\ closer' = [closer EXCEPT !.at = "next", !.cur = None]
             /\ UNCHANGED pool
    /\ UNCHANGED <<addrs, mutex, pubs, polls, poll>>

\* close(exitChan)
CloseExit ==
    /\ Closer("next") /\ \A a \in closer.todo : pool[a].closed
    /\ closer' = [closer EXCEPT !.at = "done"]
    /\ UNCHANGED <<addrs, pool, mutex, pubs, polls, poll>>

-----------------------------------------------------------------------------
Init ==
    /\ addrs = {}
    /\ pool = [a \in Addr |-> None]
    /\ readers = {} /\ writers = {}
    /\ pc = [p \in Pub |-> "idle"]
    /\ got = [p \in Pub |-> None]
    /\ try = [p \in Pub |-> 0]
    /\ count = [p \in Pub |-> 0]
    /\ sent = [p \in Pub |-> FALSE]
    /\ res = [p \in Pub |-> None]
    /\ polls = 0
    /\ poll = NoPoll
    /\ closer = NoClose

LoopStep == Query \/ ConnectToNSQD \/ Fill \/ WantAddrs \/ SetAddrs \/ LoopExit
PubStep(p) == RLock(p) \/ Pick(p) \/ Recv(p) \/ Send(p) \/ Put(p)
CloseStep == CloseChan \/ CloseFlag \/ Drain \/ CloseExit

Next == LoopStep \/ Close \/ CloseStep \/ \E p \in Pub : Publish(p) \/ PubStep(p)

\* Goroutines run, a waiting writer gets addrMtx once the readers left, the
\* readers get it once the writers left.  Nobody has to call Publish.
Fairness ==
    /\ WF_vars(LoopStep) /\ WF_vars(CloseStep)
    /\ \A p \in Pub : WF_vars(PubStep(p))

Spec == Init /\ [][Next]_vars /\ Fairness

-----------------------------------------------------------------------------
(* Properties *)

\* Every variable has its type; a call makes at most three tries, a channel
\* never holds more than poolCap connections, and every address publishers
\* can pick has a pool (producer.go:160-169, 211-218, 240-246).
TypeOK ==
    /\ pool \in [Addr -> Pools \cup {None}]
    /\ addrs \subseteq {a \in Addr : pool[a] # None}
    /\ readers \subseteq Pub /\ writers \subseteq Pub \cup {Loop}
    /\ pc \in [Pub -> {"idle", "rlock", "pick", "recv", "send", "put", "panic"}]
    /\ got \in [Pub -> Addr \cup {None}]
    /\ try \in [Pub -> 0 .. Tries]
    /\ count \in [Pub -> 0 .. MaxPublish] /\ sent \in [Pub -> BOOLEAN]
    /\ res \in [Pub -> {None, "nil", "error"}]
    /\ polls \in 0 .. MaxPolls
    /\ poll \in [at : {"wait", "connect", "fill", "lock", "exit", "panic"},
                 answer : SUBSET Addr, todo : SUBSET Addr, cur : Addr \cup {None}]
    /\ closer \in [at : {"no", "next", "flag", "drain", "done"}, todo : SUBSET Addr,
                   cur : Addr \cup {None}]

\* No connection is lost or duplicated: until Close what is in the channel
\* and what the publishers hold makes up what ConnectToNSQD put there so far,
\* whatever fails, and a pool that Close is done with stays empty, whoever is
\* still filling it or putting a connection back (producer.go:99-101, 192-203,
\* 205-271).
Conserved ==
    \A a \in Addr :
        pool[a] # None =>
            /\ ~pool[a].shut =>
                  pool[a].n + Cardinality({p \in Pub : pc[p] \in {"send", "put"} /\ got[p] = a})
                      = pool[a].made
            /\ pool[a].closed => pool[a].n = 0 \/ (closer.at = "drain" /\ closer.cur = a)

\* With as many connections per nsqd as publishers every Publish returns,
\* unless Close is called or an nsqd could not be connected.  The one panic
\* before Close is that of a publisher whose address list was emptied between
\* its look at the length and its pick (producer.go:205-246).
PublishReturns ==
    \A p \in Pub :
        pc[p] \notin {"idle", "panic"} ~>
            \/ pc[p] = "idle"
            \/ pc[p] = "pick" /\ addrs = {}
            \/ closer.at # "no"
            \/ \E a \in Addr : pool[a] # None /\ pool[a].made = 0 /\ poll.cur # a

\* Publish returns nil only if nsqd took the message, as "ErrNotConnected is
\* returned when a publish command is made against a Producer that is not
\* connected" (error.go:5) has it.
NilMeansSent == \A p \in Pub : pc[p] = "idle" /\ res[p] = "nil" => sent[p]
=============================================================================

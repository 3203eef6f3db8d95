# A TLA+ verification of j7f

j7f is a Go library for building services: a distributed lock, service
registration and discovery over etcd, hot reload, a message producer, a
database node with sharding, a filter for forbidden words, and thin layers over
gRPC, gin, zap and viper. The repository has no documentation and no tests, so
the code and its comments are the only reference. This directory models the
parts that keep state or compute something, checks them with TLC and proves, with
TLAPS and for every size of the system, the safety of all of them but the trie's
Query.

`PROJECT.json` is the index: every component, run, mutant, mapped definition,
hazard and theorem.

## 1. The system

| Part | State | Operations | Interacts with |
|---|---|---|---|
| redsync (`lib/gopkg.in/redsync.v1`) | value and window of a Mutex; a key with expiry at every Redis | Lock, Unlock, Extend | Redis, one request per pool and call |
| RedisLock (`components/lock`) | `sl`, `isLock`, one redsync mutex, shared by the goroutines of a process | Lock, Unlock | redsync |
| etcd_listen (`util/etcd_listen`) | five maps with a lock each, a goroutine per watched key, exported files | AddGroupWatchs, EmptyGroupWatchs, ReloadEtcdWatch, ReloadExport | etcd, a user callback |
| grace (`components/grace`) with the servers of `components/grpc/server`, `components/http/server` and `components/service_register` | which process listens, serves, has requests in flight and is registered; signal goroutines | ListenAndServe, fork, shutdown, Register, DeRegister | the operating system, etcd |
| mq producer (`components/mq`) | address list, a channel of connections per nsqd, `addrMtx` | Publish, Close, the lookup loop | nsqlookupd, nsqd |
| trie (`components/trie`) | nodes with a `sync.Map` of children | Add, Del, Query, ReadAll | none |
| dao node and sharding (`components/dao`) | queue of slaves with an index, connections, sharding rules | NewNode, GetSlaveConn, GetTable, BeginTransaction, Commit, Rollback | MySQL through `database/sql` |
| grpc stream (`components/grpc/server/grpc.go`, `components/grpc/client/grpc.go`) | context, cancel function and channel of the last request, a timeout goroutine per request | RecvMsg and SendMsg of both ends | gRPC, `components/errors` |
| interceptors, connections of the grpc client, http middleware, errors, log, config, email, utilities, generated messages | none, or delegated to a library | | |

What is hard in it, and what each part must guarantee:

* **redsync**: requests to Redis fail, lose their answer, or are executed after
  the caller gave up; clocks differ; tries repeat with the same value. Two
  holders must never be inside their windows at once, and nobody may take
  another's key.
* **RedisLock**: the goroutines of a process share the flag, the mutex and the
  value; Lock has a timeout. Nobody may get in beside a holder (it happens, and
  the model says when), release `sl` for another, or wait for ever.
* **etcd_listen**: maps are written under locks and read without; groups are
  added and removed while events arrive. Files must end up saying what etcd says.
* **grace**: several signal goroutines per process, timers, a child that kills
  its parent, signals that are dropped, errors of etcd. A service must stay
  reachable over a reload, leave the registry before it stops, stop in the end,
  and lose no request to anything but a stop.
* **mq producer**: connections are taken under a read lock and put back under a
  write lock while Close and the lookup run. No connection may be lost, no
  publisher may wait for ever, nil must mean sent.
* **trie**: goroutines walk and change the nodes without a lock. Adding and
  deleting must look atomic, and Query must find the words that are there.
* **dao**: callers share the index of the queue; the queue is shuffled by an
  unusual swap; keys come in several types and integers wrap; transactions hold
  connections until a deadline. Use must follow the weights, a row must have
  one table, transactions must end.

* **grpc stream**: the goroutine that watches a request's time reads fields the
  next request overwrites, and shares a channel of capacity one with SendMsg.
  Only a timeout may end a request early, a response must get out, and no
  request may be sat on unseen.

The list of hazards with their lines is in `PROJECT.json`.

## 2. Modules

| Module | Models | Used by |
|---|---|---|
| `Lease` | abstract: a lock granted for a window of time | `Redsync` (refinement) |
| `Redsync` | `mutex.go`, `redsync.go`, with Redis as the environment | `RedsyncProofs`, `MCRedsync` |
| `RedsyncProofs` | the theorems about `Redsync` | |
| `RedisLock` | `components/lock/redis.go` | `RedisLockProofs`, `MCRedisLock` |
| `EtcdListen` | `etcd_listen.go`, `etcd_watcher.go`, with etcd as the environment | `EtcdListenProofs`, `MCEtcdListen` |
| `Grace` | `grace/server.go`, `grace/grace.go`, listening, serving and stopping of both servers, registration | `GraceProofs`, `MCGrace` |
| `GrpcStream` | `grpc/server/grpc.go`, `clientStream` of `grpc/client/grpc.go`, `errors.NewFromCode` | `GrpcStreamProofs` |
| `MqProducer` | `mq/producer.go` | `MqProducerProofs`, `MCMqProducer` |
| `WordSet` | abstract: a set of words whose operations are atomic | `Trie` (refinement) |
| `Trie` | `Add`, `Del` and `ReadAll` of `trie/trie.go` | `TrieQuery`, `TrieProofs` |
| `TrieQuery` | `Query` of `trie/trie.go`, with its white lists | `MCTrie` |
| `DaoShard` | `dao/shard`, `Node.GetTable`: pure functions | `DaoNode` |
| `DaoNode` | `dao/node.go`, `dao/balancer.go` | `DaoNodeProofs`, `MCDaoNode` |
| `RedisLockProofs`, `EtcdListenProofs`, `GraceProofs`, `GrpcStreamProofs`, `MqProducerProofs`, `TrieProofs`, `DaoNodeProofs` | the theorems about the module each is named after | |

Each component's module says in its header what its steps are. In every module
the definitions named `...Mutant` are deliberate errors: each stands in for the
definition after it to show that a property would notice it. They take no part
in the specifications.

### Redsync and Lease

A pool's key is a value with an expiry. `LockCall` is the start of Lock;
`AcquirePool` one round of its loop over the pools; `LockWon` and `LockLost` the
decision at mutex.go:57-58; `ReleasePool`, `TryFailed`, `NextTry` the rest of a
try. `UnlockPool` and `ExtendPool` are the rounds of the other two calls. A
round (`Visit`) has one of these outcomes: executed and answered; not executed;
executed with its answer lost; or put into `flight`, to be executed later by
`LateExecution`, for the kinds in `LateKinds`. Time passes between any two
steps. A pool may let a key go up to `Skew` early. `Window` has the
sign of the code: the 2 ms (`Slack`) are added.

A mutex *relies on* its lock while `Valid(m)`: Lock returned success, Unlock was
not called, and `now < until`. `Lease` says the same without pools.

### RedisLock

Every statement that touches shared state is a step. Redsync is represented by
what is shown of it: a key that one value holds at a time, deleted by Unlock if
it still has `rl.value`. All goroutines of a process share `rl.value`. The key
may expire at any time, also while the Unlock of its owner is under way; only
between the return of Lock and the call of Unlock it does not, unless `Overrun`,
which is FALSE in both runs. `robbed` is a history variable: who lost the key it
holds to an `rl.Unlock` of another goroutine (section 6).

### EtcdListen

Every locked section is one step; `tiggerChangesWatchKey` is one step per file it
rewrites, because it reads the maps without locks. A watch goroutine reads
(`Get`), sets the nodes one by one (`SetNode`), triggers (`SetOk`), then takes
events in the order of their revisions (`WatchEvent`); it may fail when reading
or watching. A goroutine whose watch was removed goes on until its select takes
`ctx.Done()`. The files are maps from service name to nodes. A case is what etcd
holds at first and a script of calls, which the caller makes one after the other.
`stray` is a history field: a removed goroutine delivered after its successor read.

### Grace

Processes are numbered; the first is the one the operator starts and `Fork` adds
one. The main program is not in the repository: it is taken to listen and
register for every service, then to call ListenAndServe, and to exit when it
cannot listen or register, or when all servers have returned. `ServeFails` is a
StartServ that returns with an error of its own: `runing` becomes false, nobody
deregisters the server, and a later signal to stop passes it by. A child whose
parent is gone signals whoever has taken it over, which may succeed or fail. A
signal is delivered to the goroutines that wait in their receive and is lost for the
others; before `Notify` it kills the process.

A server has at most one request in flight. GracefulStop of a gRPC server
(`GrpcStop`) calls `Stop`, which cuts it off; that of an HTTP server
(`HttpShutdown`) drains: `Drained`, or `DrainFails` after fifteen seconds, whose
error is logged at panic level and ends the process. In both cases Serve returns
at once, and main may exit while a server is draining.

The registration is a key (`reg`) whose lease is `kept` alive or not. `Register`
may fail before or after the key is put, and the Delete of `DeRegister` may fail;
the leaser is closed in any case, so that the key goes when its lease runs out. A
call to etcd is taken to return; section 6 says what happens if it does not.

### GrpcStream

One stream with its handler, its client and a goroutine per request. Contexts,
cancel functions, channels and goroutines carry the number of the request they
were made for, so that a goroutine that uses another request's is visible in the
state. RecvMsg is two steps (`RecvMsg` replaces context and cancel function,
`Arm` the channel, and starts the goroutine), because an earlier goroutine may
run in between. The goroutine evaluates `s.ctx.Done()` (`ReadCtx`), then
`s.processingDone`, and takes a case or waits (`Select`); `Cancel` and `Panic` are
the two cases. `Put` is the send of SendMsg into the channel, with Go's rule that
a waiting receiver takes the value past the buffer; `Reply` is the rest. A
context is done at its `Deadline`, when it is cancelled, or with the stream, which
ends by `Return` of the handler or `Abort`. `TakeFirst` and `TakeSecond` are the
two receives of the client's RecvMsg. Responses carry the trace id found in the
metadata map, which all contexts of a stream share.

`expired` and `overtaken` are history variables for `PanicExplained`.

### MqProducer

A channel is the number of connections in it. `addrMtx` is a Go RWMutex, where a
waiting writer keeps new readers out. Publish is `Publish`, `RLock`, `Pick`,
`Recv`, `Send` and `Put`, three tries at most; the lookup loop and Close run
beside it. `ConnectToNSQD` stores an empty pool and `Fill` puts one connection at
a time into it; Close is, for every pool, `CloseChan`, `CloseFlag` and `Drain`
connection by connection. `rand.Intn(0)` is the location "panic" of a publisher;
a connection put into a channel that Close has closed is that of the lookup, and
ends the process (`Alive`).

### Trie, TrieQuery and WordSet

`AddNode` is one `LoadOrStore`, `AddEnd` the final assignment; `DelDown`,
`DelFound`, `DelUp` and `DelMiss` are the recursion of cycleDel, one map
operation a step (a Load and the reading of the loaded node's End are one).
`label` remembers the runes on the way to a node, which cycleRead joins; no step
depends on it. ReadAll and Query are functions of the trie between calls:
`Reachable` is the set of nodes cycleRead comes to (the root and the children of
its members; nodes are numbered in the order they are made, so there is only one
such set), and in `TrieQuery` `Scan` is Query's outer loop, `Hit` the inner one.

Callers may add and delete any words. Where a Del takes other words with it the
trie is no set of words, and nothing is said of them: `Apart` are the runes below
which the calls of the scripts keep to words that are deleted one at a time, and
`SetRefinement` is about the words that begin with such a rune, whatever is torn
out below the others meanwhile. Section 6 says what happens there.

`WordSet` is linearizability for this interface: a call takes effect at one
moment between its start and its return. The mapping shows it the words and calls
below the `Apart` runes only, and takes an Add at the `End`
it sets and a Del at the first node it deletes.

### DaoShard and DaoNode

`DaoShard` computes the table of a row. Integers have `Bits` bits and wrap as the
conversions of shard.go do. A text is the sequence of decimal numerals it was put
together from; that is all `ParseUint`, `ParseInt` and the joining of keys tell
apart. For the date rules a text is its characters: `Format` writes a date as
time.Format does, with as many digits as the year has, `Cut` takes the slices of
the rule and `Atoi` reads them or fails. crc32 and local time are parameters. `At`
is what the loops over rules and keys keep: those at the given places, in their
order.

`DaoNode` opens a node, fills the queue slave by slave, shuffles it swap by swap
with every random number, and then lets readers take slaves (lock, read, move on
and unlock) and writers run transactions: a context with a deadline, a wait for
one of `MaxConnNum` connections, Commit or Rollback in time or late, and the
rollback by database/sql once the context has expired. Commit and Rollback never
cancel the context (the condition at node.go:263 and 278 is inverted), and so the
model does not either.

## 3. Runs

TLC with two workers; every run takes a few minutes at most.

| Run | Instance | Checks |
|---|---|---|
| `redsync` | 2 mutexes, 2 pools, 2 tries, Unlock and Extend, a set or touch executed late; clock 0..3, expiry 2, drift 1, skew 1 | `TypeOK`, `MutualExclusion`, `QuorumHeld`, `ExtendHolds`, `OnlyOwnerChanges`, `LeaseRefinement` |
| `redis_lock` | 2 processes, 3 goroutines, 2 Locks each, keys expiring | `TypeOK`, `Exclusion`, `SlHeld`, `OnlyOwnProcess` |
| `etcd_listen` | 2 keys, 2 nodes, 2 files sharing a key, 4 scripts, 2 changes in etcd, failures and bad values | `TypeOK`, `MapsAgree`, `OneWatcher`, `Settles` |
| `grace` | a gRPC and an HTTP service, 3 processes, 3 signals of any kind at any time or failures of a server, 2 requests, errors of etcd | `TypeOK`, `ServedIsRegistered`, `DeregisteredFirst`, `OneChild`, `OnlyStopCuts`, `HeardStops`, `ReloadKeepsServing` |
| `grpc_stream` | 2 requests, up to 4 responses, any order of calls | `TypeOK`, `PanicExplained`, `SendsGetOut`, `RequestEnds` |
| `mq_producer` | 2 publishers with 2 calls each, 2 connections, 3 lookups, Close, all failures | `TypeOK`, `Conserved`, `PublishReturns` |
| `trie` | 2 goroutines, 3 runes, 3 scripts, all texts up to 4 runes and 6 of up to 9, white lists | `TypeOK`, `QuerySound`, `QueryComplete`, `ListsSpare`, `SetRefinement` |
| `dao_node` | 3 weightings and 2 that panic, 2 readers, 8 calls, 2 writers on 1 connection, 6-bit integers, 6 rules, years with 1, 2, 4 and 5 digits | `TypeOK`, `Balanced`, `KeyTypesAgree`, `DateRouting`, `RangeRouting`, `TxEnds` |
| `redsync_late_release` | a release executed late | `MutualExclusion` is violated |
| `redis_lock_wedge` | 1 process, 2 goroutines | `LockReturns` is violated |
| `grace_child` | 2 processes, one reload | `ChildTakesOver` is violated |
| `mq_producer_lost` | as `mq_producer` | `NilMeansSent` is violated |

Why the bounds are enough for what the runs are about:

* In `redsync` a majority of two pools is both of them, so that one pool can fail,
  be late or expire early and two Lock calls can each hold one; the clock runs
  past one whole expiry, so windows open, end and open again for the other mutex,
  and the second try meets what the first left in flight. Larger numbers of
  pools, where majorities only overlap, are what the theorems of section 4 cover.
* In `redis_lock` two goroutines share a process and one is elsewhere; the second
  Lock of each meets what the first left behind: a flag cleared late, or an Unlock
  that still waits for Redis when its key has expired and its neighbour holds the
  next one.
* In `etcd_listen` one key is shared by both files and one is not, and both
  events can fall before, during and after any call. The script that adds a
  group to a running watch ends with ReloadExport: AddGroupWatchs does not export
  by itself, and the key's watch would only do so at its next change. In the last
  script a key is watched, given up and watched again over two nodes that were
  there before: with two changes one node can leave while the other keeps the
  answer from being empty, or leave and come back around the second read. Both
  exceptions that `Settles` makes for such a key are needed: without either of
  them it is violated on this instance.
* Three processes in `grace` are a parent, its child and a child after that; three
  signals allow a reload, a stop and a repetition; a failure of the gRPC server
  counts as one of the three, so it can fall before, between or after them; two
  requests are one at each server, or one before and one after a reload.
* In `grpc_stream` two requests are one goroutine that is overtaken and the request
  whose context it then finds; four responses are one more than the three it takes
  to block on a request.
* In `mq_producer` the second call of each publisher finds what the first left, and
  a pool of two can be half full when Close comes, or half drained when a
  publisher takes from it.
  As many connections as publishers is what `PublishReturns` needs (section 6).
* In `trie` the scripts have one word that begins another, words that part at the
  first and at the second rune, deleting twice, deleting the beginning of a word
  and the empty word, and, in the third, Dels below one rune that take each
  other's words while words below the other two are added and deleted. Four runes
  of text are one more than the longest word; the longer texts have a listed word
  of five runes and of six before or after a forbidden one, on both sides of the
  window of the white lists.
* In `dao_node` eight calls are twice the longest queue, so a stretch can begin
  anywhere; six bits are enough for joined keys to overflow. One range rule ends with
  the largest number. The dates go over the end of the year 9999.

Deadlock is not checked: every model stops when its bounds are used up, and the
systems stop too (a process exits, a node fails to open).

### Fairness

* `RedisLock`: goroutines go on (weak), a goroutine that waits for `sl` gets it if
  it is free again and again (strong: sync.Mutex does not starve), keys expire.
  Used only for the violated `LockReturns`.
* `EtcdListen`: the caller, the watch goroutines and the refreshes go on, and
  etcd delivers its events (weak). Changes in etcd and failures of a read or of a
  watch are not fair: they may happen and need not, so that `Settles`, which
  speaks of goroutines that did not fail, is about behaviours that exist.
* `Grace`: the main program, the signal goroutines and the timers (of shutdown and
  of draining) go on (weak); signals are the operator's choice, requests and
  answers the clients' and handlers', errors of etcd need not happen. `HeardStops`
  holds although no request needs to be answered.
* `GrpcStream`: a call of the handler that is under way, the goroutines and the
  timers go on (weak). Which calls handler and client make, and whether they make
  any, is free.
* `MqProducer`: publishers, the loop and Close go on (weak). A publisher that
  waits for the lock or a connection is not helped beyond that.
* `DaoNode`: time passes and database/sql reacts to an expired context (weak). No
  fairness for callers: `TxEnds` holds even if nobody ever commits.

## 4. What is proved

Every theorem is about all values of the constants that satisfy the module's named
assumptions: any number of mutexes, pools, goroutines, processes, services, keys,
publishers or slaves, and any length of run (the bounds that TLC needs are
parameters too). A theorem that needs more has it as an explicit `ASSUME`. Every
inductive invariant was first checked by TLC on the instance of the module's run.

| Module | Theorem | Statement | Further assumption |
|---|---|---|---|
| `RedsyncProofs` | `TypeCorrect` | `Spec => []TypeOK` | |
| | `MutualExclusionHolds` | `Spec => []MutualExclusion` | `Safe` |
| | `QuorumIsHeld` | `Spec => []QuorumHeld` | `Safe` |
| | `ImplementsLease` | `Spec => LeaseRefinement` | `Safe` |
| | `OwnerChangesOnly` | `Spec => OnlyOwnerChanges` | |
| | `ExtendAnswers` | `Spec => []ExtendHolds` | no late release |
| `RedisLockProofs` | `TypeCorrect` | `Spec => []TypeOK` | |
| | `SlIsHeld` | `Spec => []SlHeld` | |
| | `ExclusionHolds` | `Spec => []Exclusion` | `~Overrun` |
| | `OnlyOwnProcessTakes` | `Spec => OnlyOwnProcess` | `~Overrun` |
| | `AloneExcluded` | `Spec => []MutualExclusion` | `~Overrun`; one goroutine per process |
| `EtcdListenProofs` | `TypeCorrect` | `Spec => []TypeOK` | |
| | `MapsStayInAgreement` | `Spec => []MapsAgree` | |
| | `WatchIsOne` | `Spec => []OneWatcher` | |
| `GraceProofs` | `TypeCorrect` | `Spec => []TypeOK` | |
| | `ServedStaysRegistered` | `Spec => []ServedIsRegistered` | |
| | `DeregistersFirst` | `Spec => []DeregisteredFirst` | |
| | `OneChildOnly` | `Spec => []OneChild` | |
| | `OnlyAStopCuts` | `Spec => []OnlyStopCuts` | |
| | `ReloadServesOn` | `Spec => ReloadKeepsServing` | |
| `GrpcStreamProofs` | `TypeCorrect` | `Spec => []TypeOK` | |
| | `PanicIsExplained` | `Spec => []PanicExplained` | |
| `MqProducerProofs` | `TypeCorrect` | `Spec => []TypeOK` | |
| | `ConnectionsConserved` | `Spec => []Conserved` | |
| `TrieProofs` | `TypeCorrect` | `Spec => []TypeOK` | |
| | `ImplementsWordSet` | `Spec => SetRefinement` | |
| `DaoNodeProofs` | `TypeCorrect` | `Spec => []TypeOK` | |
| | `BalanceHolds` | `Spec => []Balanced` | |
| | `RangesRoute` | `Spec => []RangeRouting` | one rule per table; `Fits`: no range ends beyond the largest integer |
| | `TypesAgree` | `Spec => []KeyTypesAgree` | one rule per table; no modulus of zero |
| | `DatesRoute` | `Spec => []DateRouting` | one rule per table |

The assumptions on the constants are their types, that the model value for
"nothing" is not one of the values it stands beside (`NoneAssumption`,
`NobodyAssumption`), at least one pool, `Skew <= Expiry`, finitely many publishers
(`PubAssumption`: connections are counted), weights and the numbers of sharding rules
that are natural numbers, local dates with a month and a day (`DateAssumption`), and
at least three bits for the integers of the dao. `BitsAssumption` also says of the two
powers of two that the definitions use what holds of every such width: the provers
know nothing of powers.

### Redsync

    Safe == Skew + Slack <= Drift /\ "release" \notin LateKinds

Both conjuncts are needed. The window ends at `start + Expiry - Drift + Slack`,
and a key set after `start` may be gone at `start + Expiry - Skew`: without the
first conjunct the window can outlive the keys. The second is what the run
`redsync_late_release` shows.

`MutualExclusion` is not inductive: it says nothing about what a try has
collected so far, or about requests still to be executed. The inductive invariant is

    IndInv == TypeOK /\ TryCovered /\ LockCovered /\ ValuesFresh /\ NoLateRelease

* `TryCovered`: each pool a running try counts really holds its value at least
  until the time the try would rely on;
* `LockCovered`: behind each open window a majority of pools holds the value
  past the end of the window;
* `ValuesFresh`: no key and no request in flight has a value yet to be drawn, so
  a new Lock cannot mistake an old key for its own;
* `NoLateRelease`: nothing in flight can delete a key.

The steps: what a single request does to a key (`EffectCovers`, `SetCovers`),
that it leaves the other mutexes' keys alone (`RequestCovers`, `FrameCovers`), one
round of a loop (`VisitStep`), the moment Lock succeeds (`WonCovers`), and
`IndStep` with a case per action. `MajoritiesMeet` (two majorities of a finite
set share a member) gives mutual exclusion; the refinement needs `WonAlone` as
well: when Lock succeeds no window is open.

`OwnerChangesOnly` needs no more than types: it holds with any clocks and with late
releases, because Redis compares the value before it changes a key. `ExtendAnswers`
has an invariant of its own, `ExtendInv`: the pools an Extend has counted so far
hold the value (`ExtendCovered`), and nothing in flight deletes a key. It is about
the keys only and so needs nothing of the clocks' drift beyond `Skew`.

### RedisLock

`SlIsHeld` follows from `SlInv`: one goroutine of a process at a time is between
the return of `sl.Lock` and the call of `sl.Unlock` (`OneInside`), and `sl` is
locked then. It needs nothing of Redis, so it also covers keys that expire early.
`ExclusionHolds` and `OnlyOwnProcessTakes` follow from `KeyInv`: a holder that was
not robbed has the key (`KeyHeld`), and the value a process releases is one of its
own goroutines' (`OwnValue`). `~Overrun` covers the time from the return of Lock to
the call of Unlock and no more: keys expire during Unlock. `sl` and `isLock` play no
part in it: across goroutines, of one process too, the key in Redis is what keeps
them apart. `AloneExcluded` adds that nobody is ever robbed where each process has
one goroutine.

### EtcdListen

`MapsInv` says what the maps are *within* a call, where `MapsAgree` says nothing:
`namesWithOutputFile` mentions the added files, but for the one that AddGroupWatchs
has entered into the first map only or EmptyGroupWatchs has taken out of it only
(`NamesEntered`); a call finds its file as it was when it looked (`FileAsSeen`);
and only keys some file mentions are watched or about to be (`WatchesWanted`).
`OneWatcher` is inductive beside it: only AddWatch gives a key a goroutine, and only
if it has no handler, and EmptyGroupWatchs cancels the goroutine of the handler it
deletes.

### Grace

The six results rest on one invariant, `GraceInv`: how far the servers of one
process are and that only a process that was asked to stop is stopping (`Places`);
that a child's parent is past its own start and has noted the fork (`Family`),
which is why two goroutines that handle one SIGHUP start one child; that who bound
an address holds it until it stops serving or fails (`PortHeld`), and who
registered keeps the registration until it shuts down (`Registered`). `PortHeld`
is what makes a failed reload harmless: the child cannot bind, so it never
registers, never reaches the point where it would terminate its parent, and never
deletes its key.

### GrpcStream

`PanicInv`: the fields of the stream are those of the last request
(`FieldsCurrent`), only requests received have goroutines (`Started`), and while
nothing excuses a panic each goroutine waits for the stream's context or its own,
which ends only with it (`OwnContext`).

### MqProducer

`MqInv` adds to the count of connections (`Conserved`) that whoever works on an
address finds its pool, the lookup that fills one and Close that drains one too
(`Backed`), that a pool's flag is set after its channel was closed (`ShutFirst`),
and how often a call has tried (`Tried`). `addrMtx` plays no part: no connection
is lost even without it. That the channel always has room when a connection comes
back, so that the branch "pool is filled" never drops one, is a consequence.

### Trie

`Steady(p)` is about the script `p` the goroutines began with. Its parts, of which
those about linked nodes speak of the `Apart` runes only:

* `Whole`: only linked nodes (the root and every child) have children, so that
  the nodes cycleRead comes to below these runes are the linked ones (`ReachableIs`).
  With `Tree` it follows that no two linked nodes have the same way (`UniqueLabels`),
  and that every beginning of a linked node's way is linked (`OnTheWay`; by the
  smallest counterexample, in place of induction).
* `Sourced`: every child is on the way of a word that is added somewhere in `p`, and
  words end only where such a word does.
* `Listed`, `Walked`, `Bare`: a call under way is one of `p`; it stands at the end of
  a walk along its word from the root, whose nodes are still linked below `Apart`
  runes; the node a Del is about to delete there on its way up has no children.

The argument: of the words that begin with an `Apart` rune where something is
deleted only one is ever added, and by the goroutine that deletes (`ApartFacts`).
Below that rune there is a single path (`OneChild`), ending in one word (`OneEnd`),
and nobody else walks it (`Alone`). So `DelFound` happens at the end of the full word
only, `DelMiss` means that the word is not there, the first `DelUp` removes it and
nothing else, and the later ones remove nodes that have nothing below. Below the
other `Apart` runes the trie only grows. Below the runes that are not `Apart` a Del may
unlink anything, also nodes another goroutine is walking through; all of that has the
rune on its way, and so is no node of the other parts (`SharedEdge`). The same facts
give the refinement: `AddEnd` and the first `DelUp` are the steps of `WordSet` that
take effect, every other step leaves these words alone.

### DaoNode

`TxInv`: finitely many connections are in use, and at most `MaxConnNum`. `QueueInv`:
every slave appended so far stands in the queue as often as its share
(`SharesKept`), which appending (`AppendCounts`) and any swap (`SwapCounts`, by a
bijection) preserve; and the calls so far went round the queue, with
`LastSlaveIndex` where the next one goes on (`InOrder`), which needs the lock: a
caller that has read and not yet moved on is counted. `RoundCounts` then maps any
stretch of calls as long as the queue one to one onto its places, and
`GcdDivides` makes shares proportional to weights.

Sharding needs only `ShardInv`, that Node.Shard is what ParseShard made of the
configuration; the rest is about functions. Keeping every place of a sequence keeps the
sequence (`AtAll`), so with known types only, and one rule per table, the rule found is
the table's own (`OwnRule`). Integers that fit the width survive the conversions
(`UnsignedIs`, `SignedIs`), so all forms of a number have its value (`NumberValue`,
`NumeralValue`), of two keys only the values are joined (`PairValue`), and a rule looks
at nothing else. What a numeral of several numbers is worth plays no part: both sides
are the same text. For the range rule `RangeHas` shows that range `i` is what it
says as long as no bound wraps, without an end where that is MaxNumKey (which Contains
takes for "no end"), and `RangeOf` that just one range has a given number, that of its
quotient, or the last for MaxNumKey. `Fits` cannot be dropped: a bound beyond the
largest integer wraps to a negative one.

For the dates `FormatDated` and `TimeDated` say which characters stand at which places
of a formatted date with a year of four digits, `CutDated` what the slices take of
them, and `AtoiYear`, `AtoiMonth` and `AtoiDay` what these digits spell. None of it
holds for a year of five digits.

### Only model-checked

* Liveness (`Settles`, `HeardStops`, `SendsGetOut`, `RequestEnds`, `PublishReturns`,
  `TxEnds`) is beyond the prover.
* `QuerySound`, `QueryComplete` and `ListsSpare` of the trie: Query's loop goes over a
  text with state of its own and is written as a recursive operator, which is out of
  the prover's reach; its result for every text would need induction over the text.

## 5. Findings with a run

* **A late release undoes a later try** (`redsync_late_release`). All tries of a
  Lock share one value (mutex.go:37). A release of a failed try that Redis
  executes after the client gave up deletes the key a later try was granted.
* **A Lock may wait for ever** (`redis_lock_wedge`). `sl` is unlocked before the
  flag is cleared (redis.go:97-98, 106-107). The next goroutine's flag is then
  cleared under it, its Unlock returns without doing anything, and `sl` stays
  locked; the wait for `sl` is outside the timeout.
* **A reload never takes over** (`grace_child`). NewServer fills a local variable
  that shadows `runningServers` (grace.go:66), so the child inherits no listener
  and cannot listen on the address its parent uses.
* **Publish returns nil for a lost message** (`mq_producer_lost`). The error of the
  third failure is overwritten by the result of putting the connection back
  (producer.go:219).

## 6. Deviations seen while modelling, without a run

* mutex.go:57 adds 2 ms to the window where the algorithm subtracts them; with a
  clock error of exactly the drift allowance two holders can overlap by 2 ms.
* mutex.go:129 compares an int64 in an interface with the int 0: `release` reports
  success whenever a pool answers, so Unlock of an expired lock returns true.
* components/lock/redis.go:115-117 gives `sl` up before `rl.Unlock`, which releases
  the value `rl` has by then. If the first goroutine's key expires before its
  `rl.Unlock` (the key lives a second at most, redis.go:13) and a second goroutine of
  the process gets the lock, the pending Unlock deletes the second one's key, and a
  third gets in beside it. `Exclusion` and `OnlyOwnProcess` say that this is the only
  way, `AloneExcluded` that one goroutine per process is safe.
* etcd_listen.go:249: a refresh under way while its group is emptied creates the
  group's output again. etcd_watcher.go:124: a key watched again keeps nodes that
  left etcd meanwhile. etcd_watcher.go:140: a removed watch may still deliver, and
  undo what its successor read. A goroutine that failed leaves its handler, so the
  key is never watched again. etcd_listen.go:124: EmptyGroupWatchs of an added group
  before Start dereferences a nil watcher.
* grace.go:60: the signal channels are unbuffered; a signal during a fork or
  before the receive is lost for that server, which then never stops: `HeardStops`
  needs that every signal goroutine of the process was waiting.
* grace/server.go:53-56: after a StartServ that fails by itself the server stays
  registered as long as its process lives, and a signal to stop does not deregister it.
* grpc/server/server.go:102 says "stops the gRPC server gracefully", but
  GracefulStop calls `Stop`, which cuts requests off. http/server/server.go:169:
  Serve returns when Shutdown starts, so main may exit before requests are drained,
  and a Shutdown that times out panics in a goroutine (grace/server.go:170 panics
  again) and takes the other servers of the process with it.
* service_register/etcd.go:122: Delete has no deadline. If etcd does not answer,
  the signal goroutine waits in DeRegister and the server never stops.
* grace/server.go:231: NewServer does not make the map SignalHooks, so the first
  RegisterSignalHook assigns to a nil map and panics.
* grpc/server/grpc.go:125: CommonError has no `String` method, so NewFromCode
  panics (errors.go:62) in a goroutine nobody recovers, although the comment at
  grpc/interceptor/error_interceptor.go:25 speaks of "panic recovery". Every
  processing time that runs out, and every stream that ends with a request
  unanswered (a method that takes several requests before it responds leaves all
  but the last), ends the server process; the timeout response is never sent.
* grpc/server/grpc.go:135: a goroutine that runs after the next RecvMsg cancels the
  next request's context, whose goroutine then panics although nothing was late.
* grpc/server/grpc.go:79: the third response to a request, and one before the first
  request, waits for ever.
* grpc/client/grpc.go:88: RecvMsg receives twice, so every other response is lost,
  and a client that waits for the answer to one request waits until the stream ends.
  The comment at line 18, "implements a client side Stream", suggests otherwise.
* grpc/client/client.go:58: Endpoint returns a cached connection without setting
  `c.Conn`, so Invoke of that client dereferences nil; a connection that has failed
  is replaced in the map and never closed; `nil, nil` is returned at 72 and 105.
* producer.go:99: `poolCap` 0, documented as unlimited (config.go:73), means no
  connection at all. producer.go:246: a publisher that waits when Close runs spins
  for ever; one that picks a pool whose connection failed (97) waits until Close
  and then spins. producer.go:100: if Close closes a pool that the lookup is still
  filling, the next send panics in a goroutine nobody recovers. With fewer
  connections than publishers, one that waits for a connection under the read lock
  keeps the one that would return it out.
* trie.go:74: Del deletes every node it came through, with every word below it,
  and stops at the first end of a word: deleting "ab" also loses "ac", deleting
  "abc" where "ab" is a word deletes "ab", and a word that another goroutine adds
  below while the Del is under way goes with it. trie.go:113: words of one rune are
  never found, nor a word inside a longer one that the end of the text cuts short.
* balancer.go:13: a node without slaves, or with a weight of 0, panics in NewNode,
  although parseSlave and getNextSlave provide for it.
* node.go:224: after a rule of unknown type, tables use the rule of another.
* shard.go:196-219, 245-269: for a time after the year 9999, such as one in
  milliseconds, the fixed slices of the month and day rules take the dash along
  ("1000-0") and Atoi fails, while the year rule answers with the year.
* shard.go:36, 43: a negative number and its numeral go to different tables.
* node.go:263, 278: the context of a transaction is not cancelled when it ends and
  lasts until its deadline.

## 7. Not modelled

* The fatal errors of the Go runtime for concurrent map access (etcd_listen reads
  maps without their locks): every unlocked read is an atomic read.
* `ClearWatch` and `Close` of EtcdWatcher: the package keeps its watcher in an
  unexported variable and never calls them, so they do not act on the maps modelled.
* The signal hooks of grace, which are functions of the user, and the lists of
  interceptors, middleware and callbacks, which are filled before a server starts.
* The loss of the lease of a live process, calls to etcd that never return.
* `Endpoint` of the grpc client: a cache whose answers depend on what grpc-go
  reports of its connections. The map is not locked; section 6 has what was seen.
* The data races of GrpcStream as such: reading a field beside a write is taken as
  reading the old or the new value.
* `CheckNode` of the dao, which pings and calls back and changes nothing; leaked
  databases when NewNode fails.
* The mq consumer, interceptors, http middleware, formatting of errors, log,
  config, email, utilities, generated code: no state of their own, or only I/O.

## 8. Plan

Done: the lock, RedisLock, etcd_listen, grace with both kinds of servers and the
registry, the grpc stream, the mq producer, the trie, the dao node and the sharding
functions, checked, and their safety proved except for the trie's Query. What is left
out is listed in section 7 and is either I/O, stateless, or not reachable.

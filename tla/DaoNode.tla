------------------------------ MODULE DaoNode ------------------------------
(***************************************************************************)
(* components/dao: a Node is a master database and its weighted slaves.    *)
(* NewNode parses the sharding rules, opens the databases and shuffles a   *)
(* queue in which a slave stands as often as its weight says; goroutines   *)
(* then take slaves from the queue in turn, under a lock, and run          *)
(* transactions on the master's connections, each with a deadline.         *)
(***************************************************************************)
EXTENDS DaoShard, FiniteSetsExt

CONSTANTS Reader,       \* the goroutines that call GetSlaveConn
          Writer,       \* the goroutines that run transactions
          Configs,      \* configurations: [weights, shards]
          MaxConnNum,   \* DBConfig.MaxConnNum, of the master
          Runtimes,     \* the values of maxRuntime
          TRANSACTION_MAX_RUNTIME,
          MaxServed,    \* bound: calls of GetSlaveConn that get a slave
          None

ASSUME DaoAssumption ==
    /\ MaxConnNum \in Nat \ {0}
    /\ TRANSACTION_MAX_RUNTIME \in Nat \ {0}
    /\ Runtimes \subseteq Nat
    /\ \A c \in Configs : c.weights \in Seq(Nat)
    /\ None \notin Reader

ASSUME ShardAssumption == \A c \in Configs : c.shards \in Seq(ShardConfig)

VARIABLES cfg, shards,            \* Node.Cfg, Node.Shard
          phase,                  \* how far NewNode is
          RoundRobinQ, LastSlaveIndex,
          index,                  \* slaves InitBalancer has appended
          swaps,                  \* swaps the shuffle has still to do
          lock,                   \* who holds Node.l
          reader,                 \* reader[r]: where r is in GetSlaveConn
          served,                 \* the slaves taken from the queue so far
          tx                      \* tx[w]: w's transaction and the time its
                                  \* context has left

balancer == <<RoundRobinQ, LastSlaveIndex, index, swaps>>
readers == <<lock, reader, served>>
vars == <<cfg, shards, phase, balancer, readers, tx>>

-----------------------------------------------------------------------------
(* NewNode *)

Start ==
    /\ phase = "new"
    /\ shards' = ParseShard(cfg.shards)
    /\ phase' = "parsed"
    /\ UNCHANGED <<cfg, balancer, readers, tx>>

\* The master has no address, or a database does not answer.
OpenFails ==
    /\ phase \in {"new", "parsed"} /\ phase' = "failed"
    /\ UNCHANGED <<cfg, shards, balancer, readers, tx>>

\* The weights' greatest common divisor: the first that divides them all,
\* counting down from the smallest weight.
Gcd(w) == Max({d \in 1 .. Min({w[i] : i \in DOMAIN w}) : \A i \in DOMAIN w : w[i] % d = 0})

\* Without a slave, or with a weight of zero, Gcd panics.
Panics(w) == w = << >> \/ \E i \in DOMAIN w : w[i] = 0

\* How often a slave stands in the queue.
Share(w, i) == w[i] \div Gcd(w)

InitBalancer ==
    /\ phase = "parsed"
    /\ IF Panics(cfg.weights)
       THEN phase' = "panic" /\ UNCHANGED LastSlaveIndex
       ELSE phase' = "append" /\ LastSlaveIndex' = 0
    /\ UNCHANGED <<cfg, shards, RoundRobinQ, index, swaps, readers, tx>>

\* The next slave is appended as often as its share says.
AppendSlave ==
    /\ phase = "append" /\ index < Len(cfg.weights)
    /\ index' = index + 1
    /\ RoundRobinQ' = RoundRobinQ \o [j \in 1 .. Share(cfg.weights, index') |-> index']
    /\ UNCHANGED <<cfg, shards, phase, LastSlaveIndex, swaps, readers, tx>>

\* One slave needs no random order.
RandomOrder ==
    /\ phase = "append" /\ index = Len(cfg.weights)
    /\ phase' = "shuffle"
    /\ swaps' = IF Len(cfg.weights) > 1 THEN Len(RoundRobinQ) ELSE 0
    /\ UNCHANGED <<cfg, shards, RoundRobinQ, LastSlaveIndex, index, readers, tx>>

\* Two entries change places, x at random and other = sum % (x + 1).
Shuffle ==
    /\ phase = "shuffle" /\ swaps > 0
    /\ \E x \in 0 .. Len(RoundRobinQ) - 1 :
          LET other == Len(RoundRobinQ) % (x + 1)
          IN RoundRobinQ' = [RoundRobinQ EXCEPT ![x + 1] = RoundRobinQ[other + 1],
                                                ![other + 1] = RoundRobinQ[x + 1]]
    /\ swaps' = swaps - 1
    /\ UNCHANGED <<cfg, shards, phase, LastSlaveIndex, index, readers, tx>>

Ready ==
    /\ phase = "shuffle" /\ swaps = 0 /\ phase' = "ready"
    /\ UNCHANGED <<cfg, shards, balancer, readers, tx>>

-----------------------------------------------------------------------------
(* GetSlaveConn *)

\* Mutant: the lock lets several callers in, as a read lock would.
LockMutant(r) ==
    /\ phase = "ready" /\ reader[r] = "idle" /\ Len(served) < MaxServed
    /\ lock' = r
    /\ reader' = [reader EXCEPT ![r] = "pick"]
    /\ UNCHANGED <<cfg, shards, phase, balancer, served, tx>>

Lock(r) ==
    /\ phase = "ready" /\ reader[r] = "idle" /\ Len(served) < MaxServed
    /\ lock = None /\ lock' = r
    /\ reader' = [reader EXCEPT ![r] = "pick"]
    /\ UNCHANGED <<cfg, shards, phase, balancer, served, tx>>

\* getNextSlave reads the queue at LastSlaveIndex; a queue of one needs none.
Pick(r) ==
    /\ reader[r] = "pick"
    /\ LastSlaveIndex' = IF Len(RoundRobinQ) = 1 THEN LastSlaveIndex
                         ELSE LastSlaveIndex % Len(RoundRobinQ)
    /\ served' = Append(served, RoundRobinQ[LastSlaveIndex' + 1])
    /\ reader' = [reader EXCEPT ![r] = "step"]
    /\ UNCHANGED <<cfg, shards, phase, RoundRobinQ, index, swaps, lock, tx>>

\* Mutant: the index is not taken modulo the length.
StepMutant(r) ==
    /\ reader[r] = "step"
    /\ LastSlaveIndex' = LastSlaveIndex + 1
    /\ lock' = None
    /\ reader' = [reader EXCEPT ![r] = "idle"]
    /\ UNCHANGED <<cfg, shards, phase, RoundRobinQ, index, swaps, served, tx>>

\* The index moves on and the lock is given back.
Step(r) ==
    /\ reader[r] = "step"
    /\ LastSlaveIndex' = IF Len(RoundRobinQ) = 1 THEN LastSlaveIndex
                         ELSE (LastSlaveIndex + 1) % Len(RoundRobinQ)
    /\ lock' = None
    /\ reader' = [reader EXCEPT ![r] = "idle"]
    /\ UNCHANGED <<cfg, shards, phase, RoundRobinQ, index, swaps, served, tx>>

-----------------------------------------------------------------------------
(* Transactions.  An expired context has no time left; database/sql rolls  *)
(* its transaction back in a goroutine of its own.                         *)

Goto(w, pc) == tx' = [tx EXCEPT ![w].pc = pc]

TxOnly == UNCHANGED <<cfg, shards, phase, balancer, readers>>

InUse == {w \in Writer : tx[w].pc \in {"open", "left"}}

\* Mutant: no runtime given means no deadline.
RuntimeMutant(rt) == IF rt = 0 THEN -1 ELSE rt

Runtime(rt) == IF rt = 0 \/ rt > TRANSACTION_MAX_RUNTIME THEN TRANSACTION_MAX_RUNTIME ELSE rt

\* BeginTransaction makes the context and waits in BeginTx for a connection.
BeginTransaction(w) ==
    /\ phase = "ready" /\ tx[w].pc = "idle"
    /\ \E rt \in Runtimes : tx' = [tx EXCEPT ![w] = [pc |-> "begin", left |-> Runtime(rt)]]
    /\ TxOnly

\* It gets one, or an error from the database.
BeginTx(w) ==
    /\ tx[w].pc = "begin" /\ tx[w].left # 0 /\ Cardinality(InUse) < MaxConnNum
    /\ Goto(w, "open") \/ Goto(w, "idle")
    /\ TxOnly

BeginExpires(w) ==
    /\ tx[w].pc = "begin" /\ tx[w].left = 0 /\ Goto(w, "idle") /\ TxOnly

\* Commit or Rollback in time.  The context is not cancelled here: its cancel
\* is called only if it is not one.
Finish(w) ==
    /\ tx[w].pc = "open" /\ tx[w].left # 0 /\ Goto(w, "idle") /\ TxOnly

\* Too late: the caller gets an error while the connection is still in use.
FinishLate(w) ==
    /\ tx[w].pc = "open" /\ tx[w].left = 0 /\ Goto(w, "left") /\ TxOnly

\* The rollback of an expired transaction, whether the caller has given up or
\* never called Commit or Rollback.
Expire(w) ==
    /\ tx[w].pc \in {"open", "left"} /\ tx[w].left = 0 /\ Goto(w, "idle") /\ TxOnly

Tick ==
    /\ \E w \in Writer : tx[w].left > 0
    /\ tx' = [w \in Writer |-> [tx[w] EXCEPT !.left = IF @ > 0 THEN @ - 1 ELSE @]]
    /\ TxOnly

-----------------------------------------------------------------------------
Init ==
    /\ cfg \in Configs /\ shards = << >> /\ phase = "new"
    /\ RoundRobinQ = << >> /\ LastSlaveIndex = 0 /\ index = 0 /\ swaps = 0
    /\ lock = None /\ reader = [r \in Reader |-> "idle"] /\ served = << >>
    /\ tx = [w \in Writer |-> [pc |-> "idle", left |-> 0]]

NewNode == Start \/ OpenFails \/ InitBalancer \/ AppendSlave \/ RandomOrder \/ Shuffle \/ Ready
GetSlaveConn(r) == Lock(r) \/ Pick(r) \/ Step(r)
Transaction(w) == \/ BeginTransaction(w) \/ BeginTx(w) \/ BeginExpires(w)
                  \/ Finish(w) \/ FinishLate(w) \/ Expire(w)

Next ==
    \/ NewNode
    \/ \E r \in Reader : GetSlaveConn(r)
    \/ \E w \in Writer : Transaction(w)
    \/ Tick

\* Time passes, and database/sql acts on contexts that have expired; whether
\* a caller ever ends its transaction is its own affair.
Fairness == WF_vars(Tick) /\ \A w \in Writer : WF_vars(BeginExpires(w)) /\ WF_vars(Expire(w))

Spec == Init /\ [][Next]_vars /\ Fairness

-----------------------------------------------------------------------------
(* Properties *)

\* The queue and its readers: LastSlaveIndex is in the queue, and the lock is
\* held exactly while a caller is between Lock and Unlock.
QueueType ==
    /\ phase \in {"new", "parsed", "failed", "panic", "append", "shuffle", "ready"}
    /\ RoundRobinQ \in Seq(DOMAIN cfg.weights) /\ swaps \in 0 .. Len(RoundRobinQ)
    /\ index \in 0 .. Len(cfg.weights)
    /\ LastSlaveIndex \in Nat /\ (LastSlaveIndex = 0 \/ LastSlaveIndex < Len(RoundRobinQ))
    /\ reader \in [Reader -> {"idle", "pick", "step"}] /\ lock \in Reader \cup {None}
    /\ \A r \in Reader : reader[r] \in {"pick", "step"} <=> lock = r
    /\ served \in Seq(DOMAIN cfg.weights)

Tx == [pc : {"idle", "begin", "open", "left"}, left : 0 .. TRANSACTION_MAX_RUNTIME]

\* Every variable has its type; in particular LastSlaveIndex is in the queue
\* whoever moves it on, a transaction has at most TRANSACTION_MAX_RUNTIME and
\* no more than MaxConnNum connections are in use (balancer.go:80-87,
\* node.go:232-253).
TypeOK ==
    /\ cfg \in Configs
    /\ QueueType
    /\ tx \in [Writer -> Tx]
    /\ Cardinality(InUse) <= MaxConnNum

Taken(i, from, to) == Cardinality({k \in from .. to : served[k] = i})

\* Over any stretch of calls as long as the queue, whichever goroutines made
\* them and however the queue was shuffled, the slaves are used in proportion
\* to their weights (balancer.go:40-89, node.go:193-206).
Balanced ==
    \A from \in 1 .. Len(served) - Len(RoundRobinQ) + 1 :
        LET n(i) == Taken(i, from, from + Len(RoundRobinQ) - 1)
        IN \A i, j \in DOMAIN cfg.weights : n(i) * cfg.weights[j] = n(j) * cfg.weights[i]

Table(c, keys) == GetTable(cfg.shards, shards, c.table, keys)
Parses == phase = "parsed" /\ \A k \in DOMAIN cfg.shards : cfg.shards[k].type \in Rules
Tables == {cfg.shards[k] : k \in DOMAIN cfg.shards}

\* Under a rule over numbers a number is in one table, whether the key is an
\* int, an int64, a uint64 or its numeral, alone or with a second key, and the
\* table is one there is, as long as every rule has a known type
\* (shard.go:34-143).
KeyTypesAgree ==
    Parses => \A c \in {x \in Tables : x.type \in {"mod", "range"}}, n \in 0 .. MaxNumKey :
        LET same == {Number(type, n) : type \in Integer} \cup {Text("string", <<n>>)}
            table == Table(c, <<Number("int", n)>>)
        IN /\ \A k \in same : Table(c, <<k>>) = table
           /\ \A k \in same : Table(c, <<k, Number("int", 2)>>) = Table(c, <<Number("int", n), Text("string", <<2>>)>>)
           /\ c.type = "mod" => table.v \in 0 .. c.modNum - 1 /\ table.out = "ok"

\* A date as YYYY, YYYYMM or YYYYMMDD.
Shown(rule, d) ==
    CASE rule = "date_year" -> d.y
      [] rule = "date_month" -> d.y * 100 + d.m
      [] rule = "date_day" -> (d.y * 100 + d.m) * 100 + d.d

\* The last year of four digits.
LastYear == 9999

\* The forms of key the comment at shard.go:163 names for a time of date d:
\* YYYY-MM-DD HH:MM:SS, YYYY-MM-DD or a Unix time, of any integer type.
TimeKeys(n, d) ==
    {Number(type, n) : type \in Integer}
        \cup {CharText(Format(d) \o time) : time \in {<< >>, <<Blank, 1, 2>>}}

\* Under a rule over dates a time is in the table of its day, month or year,
\* in whichever form the key gives it and whatever keys follow, although every
\* rule cuts its own piece out of a formatted date, up to the last year of four
\* digits: a longer one moves what is cut (shard.go:160-282).
DateRouting ==
    Parses => \A c \in {x \in Tables : x.type \notin {"mod", "range"}}, n \in 0 .. MaxNumKey :
        DateOf[n].y <= LastYear =>
            \A k \in TimeKeys(n, DateOf[n]) :
                /\ Table(c, <<k>>) = Ok(Shown(c.type, DateOf[n]))
                /\ Table(c, <<k, Number("int", 2)>>) = Ok(Shown(c.type, DateOf[n]))

\* Under a range rule a number is in the table of its own range and in no
\* other, and is refused outside of them all; the last range has no end where
\* it would end with the largest number (shard.go:115-143, numkey.go).
RangeRouting ==
    Parses => \A c \in {x \in Tables : x.type = "range"}, n \in -MaxNumKey - 1 .. MaxNumKey :
        Table(c, <<Number("int64", n)>>) =
            IF n \in 0 .. c.locations * c.limit - 1 THEN Ok(n \div c.limit)
            ELSE IF n = MaxNumKey /\ c.locations * c.limit = MaxNumKey THEN Ok(c.locations - 1)
            ELSE Err

\* Whoever asks for a transaction gets an answer, and whoever has one gives
\* its connection back, even if it never calls Commit or Rollback and all
\* the connections are taken (node.go:232-283).
TxEnds == \A w \in Writer : tx[w].pc # "idle" ~> tx[w].pc = "idle"
=============================================================================

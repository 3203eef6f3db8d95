--------------------------- MODULE DaoNodeProofs ---------------------------
(***************************************************************************)
(* TLAPS proofs about DaoNode, for any weights, any shuffle and any number *)
(* of callers: the queue keeps every slave as often as its share says, and *)
(* callers walk round it without a gap, so that any stretch of calls as    *)
(* long as the queue uses the slaves in proportion to their weights; and,  *)
(* for integers of any width, a number has one table, whatever the type of *)
(* its key, under a range rule the one whose range it is in, and a time    *)
(* the table of its day, month or year.                                    *)
(***************************************************************************)
EXTENDS DaoNode, FunctionTheorems, FiniteSetTheorems, SequenceTheorems, WellFoundedInduction, TLAPS

\* Where slave i stands in the queue q.
Places(q, i) == {p \in 1 .. Len(q) : q[p] = i}

-----------------------------------------------------------------------------
(* Remainders *)

\* A number is quotient times divisor plus remainder.
LEMMA ModParts ==
    ASSUME NEW a \in Nat, NEW n \in Nat \ {0}
    PROVE  \E q \in Nat, r \in 0 .. n - 1 : a = n * q + r /\ a % n = r
<1>1. a % n \in 0 .. n - 1 /\ a = n * (a \div n) + (a % n) /\ a \div n \in Nat
  OBVIOUS
<1> QED
  BY <1>1

\* Quotient and remainder are determined.
LEMMA ModUnique ==
    ASSUME NEW n \in Nat \ {0}, NEW q \in Int, NEW s \in Int, NEW x \in 0 .. n - 1,
           NEW y \in 0 .. n - 1, n * q + x = n * s + y
    PROVE  x = y
<1>1. CASE q = s
  BY <1>1
<1>2. CASE q > s
  <2>1. n * (q - s) >= n
    BY <1>2
  <2>2. n * (q - s) = y - x
    OBVIOUS
  <2> QED
    BY <2>1, <2>2
<1>3. CASE q < s
  <2>1. n * (s - q) >= n
    BY <1>3
  <2>2. n * (s - q) = x - y
    OBVIOUS
  <2> QED
    BY <2>1, <2>2
<1> QED
  BY <1>1, <1>2, <1>3

\* So whoever writes it like that knows its remainder.
LEMMA ModIs ==
    ASSUME NEW a \in Nat, NEW n \in Nat \ {0}, NEW q \in Int, NEW x \in 0 .. n - 1, a = n * q + x
    PROVE  a % n = x
<1>1. PICK s \in Nat, r \in 0 .. n - 1 : a = n * s + r /\ a % n = r
  BY ModParts
<1>2. n * q + x = n * s + r
  BY <1>1
<1>3. x = r
  BY <1>2, ModUnique, SMTT(30)
<1> QED
  BY <1>1, <1>3

\* The next number has the next remainder.
LEMMA ModNext ==
    ASSUME NEW a \in Nat, NEW n \in Nat \ {0}
    PROVE  (a + 1) % n = IF (a % n) + 1 = n THEN 0 ELSE (a % n) + 1
<1>1. PICK q \in Nat, r \in 0 .. n - 1 : a = n * q + r /\ a % n = r
  BY ModParts
<1>2. CASE r + 1 = n
  <2>1. PICK b \in Nat, s \in Int, z \in 0 .. n - 1 : b = a + 1 /\ s = q + 1 /\ z = 0
    BY <1>1
  <2>2. b = n * s + z
    BY <1>1, <1>2, <2>1
  <2>3. b % n = z
    BY <2>2, ModIs
  <2> QED
    BY <1>1, <1>2, <2>1, <2>3
<1>3. CASE r + 1 # n
  <2>1. PICK b \in Nat, z \in 0 .. n - 1 : b = a + 1 /\ z = r + 1
    BY <1>1, <1>3
  <2>2. b = n * q + z
    BY <1>1, <2>1
  <2>3. b % n = z
    BY <2>2, ModIs
  <2> QED
    BY <1>1, <1>3, <2>1, <2>3
<1> QED
  BY <1>2, <1>3

\* Numbers in a row, as many as the divisor, have different remainders ...
LEMMA RoundOnce ==
    ASSUME NEW n \in Nat \ {0}, NEW a \in Nat, NEW k \in a .. a + n - 1, NEW l \in a .. a + n - 1,
           k % n = l % n
    PROVE  k = l
<1>1. k \in Nat /\ l \in Nat
  OBVIOUS
<1>2. PICK q \in Nat, r \in 0 .. n - 1 : k = n * q + r /\ k % n = r
  BY <1>1, ModParts
<1>3. PICK s \in Nat, t \in 0 .. n - 1 : l = n * s + t /\ l % n = t
  BY <1>1, ModParts
<1>4. r = t
  BY <1>2, <1>3
<1>5. CASE q = s
  BY <1>2, <1>3, <1>4, <1>5
<1>6. CASE q > s
  <2>1. n * (q - s) >= n
    BY <1>6
  <2>2. n * (q - s) = k - l
    BY <1>2, <1>3, <1>4
  <2> QED
    BY <2>1, <2>2
<1>7. CASE q < s
  <2>1. n * (s - q) >= n
    BY <1>7
  <2>2. n * (s - q) = l - k
    BY <1>2, <1>3, <1>4
  <2> QED
    BY <2>1, <2>2
<1> QED
  BY <1>5, <1>6, <1>7

\* ... and so all of them.
LEMMA RoundAll ==
    ASSUME NEW n \in Nat \ {0}, NEW a \in Nat, NEW x \in 0 .. n - 1
    PROVE  \E k \in a .. a + n - 1 : k % n = x
<1>1. PICK q \in Nat, r \in 0 .. n - 1 : a = n * q + r
  BY ModParts
<1>2. CASE x >= r
  <2>1. PICK k \in a .. a + n - 1 : k = a + (x - r)
    BY <1>1, <1>2
  <2>2. k \in Nat /\ k = n * q + x
    BY <1>1, <2>1
  <2>3. k % n = x
    BY <2>2, ModIs
  <2> QED
    BY <2>3
<1>3. CASE x < r
  <2>1. PICK k \in a .. a + n - 1 : k = a + (x - r) + n
    BY <1>1, <1>3
  <2>2. PICK s \in Nat : s = q + 1
    OBVIOUS
  <2>3. k \in Nat /\ k = n * s + x
    BY <1>1, <2>1, <2>2
  <2>4. k % n = x
    BY <2>3, ModIs
  <2> QED
    BY <2>4
<1> QED
  BY <1>2, <1>3

-----------------------------------------------------------------------------
(* Counting *)

\* A set of naturals has a smallest member.
LEMMA SmallestIn ==
    ASSUME NEW S \in SUBSET Nat, S # {}
    PROVE  \E x \in S : \A y \in S : x <= y
<1> DEFINE R == {ss \in Nat \X Nat : ss[1] < ss[2]}
<1>1. IsWellFoundedOn(R, Nat)
  BY NatLessThanWellFounded DEF OpToRel
<1>2. \A x, y \in S : <<y, x>> \notin R => x <= y
  OBVIOUS
<1> HIDE DEF R
<1>3. \E x \in S : \A y \in S : ~(<<y, x>> \in R)
  BY <1>1, WFMin
<1> QED
  BY <1>2, <1>3

\* A bounded set of naturals has a largest member.
LEMMA LargestIn ==
    ASSUME NEW b \in Nat, NEW S \in SUBSET (1 .. b), S # {}
    PROVE  \E x \in S : \A y \in S : x >= y
<1> DEFINE T == {b - x : x \in S}
<1>1. \A x \in S : b - x \in T /\ b - x \in Nat
  OBVIOUS
<1>2. T \in SUBSET Nat /\ T # {}
  BY <1>1
<1>3. PICK t \in T : \A u \in T : t <= u
  BY <1>2, SmallestIn
<1>4. PICK x \in S : t = b - x
  OBVIOUS
<1>5. \A y \in S : b - x <= b - y
  BY <1>3, <1>4
<1> QED
  BY <1>5

\* Gcd returns a common divisor.
LEMMA GcdDivides ==
    ASSUME NEW w \in Seq(Nat), ~Panics(w)
    PROVE  Gcd(w) \in Nat \ {0} /\ \A i \in DOMAIN w : w[i] % Gcd(w) = 0
<1> DEFINE W == {w[i] : i \in DOMAIN w}
           D == {d \in 1 .. Min(W) : \A i \in DOMAIN w : w[i] % d = 0}
<1>1. W \in SUBSET (Nat \ {0}) /\ W # {}
  <2>1. \A i \in DOMAIN w : w[i] \in Nat \ {0} /\ w[i] \in W
    BY DEF Panics
  <2>2. 1 \in DOMAIN w
    BY DEF Panics
  <2> QED
    BY <2>1, <2>2
<1>2. Min(W) \in W
  BY <1>1, SmallestIn DEF Min
<1>3. Min(W) \in Nat \ {0}
  BY <1>1, <1>2
<1>4. \A i \in DOMAIN w : w[i] % 1 = 0
  OBVIOUS
<1>5. 1 \in D /\ D \in SUBSET (1 .. Min(W))
  BY <1>3, <1>4
<1>6. \E x \in D : \A y \in D : x >= y
  <2> HIDE DEF D, W
  <2> QED
    BY <1>3, <1>5, LargestIn
<1>7. Gcd(w) = Max(D)
  BY DEF Gcd
<1>8. Gcd(w) \in D
  <2> HIDE DEF D
  <2> QED
    BY <1>6, <1>7 DEF Max
<1> QED
  BY <1>3, <1>8

\* The share times the divisor is the weight, and no share is nothing.
LEMMA Shares ==
    ASSUME NEW w \in Seq(Nat), ~Panics(w), NEW i \in DOMAIN w
    PROVE  Share(w, i) \in Nat \ {0} /\ w[i] = Gcd(w) * Share(w, i)
<1> DEFINE g == Gcd(w)
<1>1. g \in Nat \ {0} /\ w[i] % g = 0 /\ w[i] \in Nat \ {0}
  BY GcdDivides DEF Panics
<1> HIDE DEF g
<1>2. PICK v \in Nat \ {0} : v = w[i]
  BY <1>1
<1>3. w[i] \div g \in Nat /\ w[i] = g * (w[i] \div g)
  <2>1. v \div g \in Nat /\ v = g * (v \div g) + (v % g)
    BY <1>1
  <2> QED
    BY <1>1, <1>2, <2>1
<1>4. w[i] \div g # 0
  BY <1>1, <1>3
<1> QED
  BY <1>3, <1>4 DEF Share, g

\* A slave stands in finitely many places.
LEMMA PlacesFinite ==
    ASSUME NEW D, NEW q \in Seq(D), NEW i
    PROVE  IsFiniteSet(Places(q, i))
<1>1. IsFiniteSet(1 .. Len(q)) /\ Places(q, i) \in SUBSET (1 .. Len(q))
  BY FS_Interval DEF Places
<1> QED
  BY <1>1, FS_Subset

\* The calls of s, n of them after the first a, that took i; and that they
\* followed the queue q.
Met(s, a, n, i) == {k \in a + 1 .. a + n : s[k] = i}
Follows(s, q, a) == \A k \in a + 1 .. a + Len(q) : s[k] = q[((k - 1) % Len(q)) + 1]

\* Who walks once round the queue, from anywhere, meets every slave as often
\* as it stands there.
LEMMA RoundCounts ==
    ASSUME NEW D, NEW q \in Seq(D), q # << >>, NEW s, NEW a \in Nat, NEW i, Follows(s, q, a)
    PROVE  Cardinality(Met(s, a, Len(q), i)) = Cardinality(Places(q, i))
<1> DEFINE n == Len(q)
           K == {k \in a + 1 .. a + n : s[k] = i}
           f == [k \in K |-> ((k - 1) % n) + 1]
<1>1. n \in Nat \ {0}
  OBVIOUS
<1> HIDE DEF n
<1>2. \A k \in a + 1 .. a + n : k - 1 \in a .. a + n - 1 /\ (k - 1) % n \in 0 .. n - 1
  BY <1>1
<1>3. \A k \in a + 1 .. a + n : ((k - 1) % n) + 1 \in 1 .. n /\ s[k] = q[((k - 1) % n) + 1]
  BY <1>1, <1>2 DEF n, Follows
<1>4. \A k \in K : ((k - 1) % n) + 1 \in Places(q, i)
  BY <1>3 DEF Places, n
<1>5. f \in [K -> Places(q, i)]
  BY <1>4
<1>6. \A k, l \in K : f[k] = f[l] => k = l
  <2> SUFFICES ASSUME NEW k \in K, NEW l \in K, f[k] = f[l] PROVE k = l
    OBVIOUS
  <2>1. f[k] = ((k - 1) % n) + 1 /\ f[l] = ((l - 1) % n) + 1
    OBVIOUS
  <2>2. (k - 1) % n = (l - 1) % n
    BY <1>2, <2>1
  <2>3. k - 1 = l - 1
    BY <1>1, <1>2, <2>2, RoundOnce
  <2> QED
    BY <2>3
<1>7. \A p \in Places(q, i) : \E k \in K : f[k] = p
  <2> SUFFICES ASSUME NEW p \in Places(q, i) PROVE \E k \in K : f[k] = p
    OBVIOUS
  <2>1. p \in Int /\ p - 1 \in 0 .. n - 1 /\ q[p] = i
    BY <1>1 DEF Places, n
  <2>2. PICK j \in a .. a + n - 1 : j % n = p - 1
    BY <1>1, <2>1, RoundAll
  <2>3. PICK k \in a + 1 .. a + n : k = j + 1 /\ k - 1 = j
    BY <1>1
  <2>4. (k - 1) % n = p - 1
    BY <2>2, <2>3, Zenon
  <2>5. ((k - 1) % n) + 1 = p
    BY <2>1, <2>4
  <2>6. k \in K
    BY <1>3, <2>1, <2>5
  <2> QED
    BY <2>5, <2>6
<1>8. f \in Bijection(K, Places(q, i))
  BY <1>5, <1>6, <1>7, Fun_IsBij
<1>9. IsFiniteSet(K)
  <2>1. IsFiniteSet(a + 1 .. a + n) /\ K \in SUBSET (a + 1 .. a + n)
    BY <1>1, FS_Interval
  <2> QED
    BY <2>1, FS_Subset
<1>10. Cardinality(K) = Cardinality(Places(q, i))
  BY <1>8, <1>9, FS_Bijection DEF ExistsBijection
<1> QED
  BY <1>10 DEF n, Met

\* r is q with the entries at x and y exchanged.
Swapped(q, r, x, y) ==
    /\ Len(r) = Len(q)
    /\ \A p \in 1 .. Len(q) : r[p] = IF p = x THEN q[y] ELSE IF p = y THEN q[x] ELSE q[p]

\* Two entries that change places leave every slave as often as it was.
LEMMA SwapCounts ==
    ASSUME NEW D, NEW q \in Seq(D), NEW x \in 1 .. Len(q), NEW y \in 1 .. Len(q), NEW i,
           NEW r \in Seq(D), Swapped(q, r, x, y)
    PROVE  Cardinality(Places(r, i)) = Cardinality(Places(q, i))
<1> DEFINE to(p) == IF p = x THEN y ELSE IF p = y THEN x ELSE p
           f == [p \in Places(r, i) |-> to(p)]
<1>1. Len(q) \in Nat /\ \A p \in 1 .. Len(q) : r[p] = q[to(p)]
  BY DEF Swapped
<1>2. f \in [Places(r, i) -> Places(q, i)]
  BY <1>1 DEF Places, Swapped
<1>3. \A p, o \in Places(r, i) : f[p] = f[o] => p = o
  OBVIOUS
<1>4. \A p \in Places(q, i) : to(p) \in Places(r, i) /\ f[to(p)] = p
  BY <1>1 DEF Places, Swapped
<1>5. f \in Bijection(Places(r, i), Places(q, i))
  BY <1>2, <1>3, <1>4, Fun_IsBij
<1>6. IsFiniteSet(Places(r, i))
  BY PlacesFinite
<1> QED
  BY <1>5, <1>6, FS_Bijection DEF ExistsBijection

\* Slave j is appended c times.
LEMMA AppendCounts ==
    ASSUME NEW D, NEW q \in Seq(D), NEW j \in D, NEW c \in Nat, NEW i, Places(q, j) = {}
    PROVE  LET r == q \o [k \in 1 .. c |-> j]
           IN  /\ r \in Seq(D) /\ Len(r) = Len(q) + c
               /\ Cardinality(Places(r, i)) = IF i = j THEN c ELSE Cardinality(Places(q, i))
<1> DEFINE b == [k \in 1 .. c |-> j]
           r == q \o b
<1>1. b \in Seq(D) /\ Len(b) = c /\ \A k \in 1 .. c : b[k] = j
  OBVIOUS
<1> HIDE DEF b
<1>2. r \in Seq(D) /\ Len(r) = Len(q) + c
  BY <1>1
<1>3. \A p \in 1 .. Len(r) : r[p] = IF p <= Len(q) THEN q[p] ELSE j
  BY <1>1
<1> HIDE DEF r
<1>4. CASE i = j
  <2>1. Places(r, i) = Len(q) + 1 .. Len(q) + c
    BY <1>2, <1>3, <1>4 DEF Places
  <2>2. Cardinality(Len(q) + 1 .. Len(q) + c) = c
    BY FS_Interval
  <2> QED
    BY <1>2, <1>4, <2>1, <2>2 DEF r, b
<1>5. CASE i # j
  <2>1. Places(r, i) = Places(q, i)
    BY <1>2, <1>3, <1>5 DEF Places
  <2> QED
    BY <1>2, <1>5, <2>1 DEF r, b
<1> QED
  BY <1>4, <1>5

-----------------------------------------------------------------------------
(* The inductive invariant *)

\* InitBalancer works on weights Gcd can handle, and nobody is served before
\* it is done.
Building ==
    /\ phase \in {"new", "parsed", "failed", "panic"} => index = 0 /\ RoundRobinQ = << >>
    /\ phase \in {"append", "shuffle", "ready"} => ~Panics(cfg.weights)
    /\ phase \in {"shuffle", "ready"} => index = Len(cfg.weights)
    /\ phase # "ready" => LastSlaveIndex = 0 /\ lock = None /\ served = << >>
    /\ phase # "shuffle" => swaps = 0

\* Every slave appended so far stands in the queue as often as its share.
SharesKept ==
    phase \in {"append", "shuffle", "ready"} =>
        \A i \in DOMAIN cfg.weights :
            Cardinality(Places(RoundRobinQ, i)) =
                IF i <= index THEN Share(cfg.weights, i) ELSE 0

\* The calls so far went round the queue, and LastSlaveIndex is where the
\* next one goes on; a caller between reading and moving on has been counted.
InOrder ==
    phase = "ready" =>
        LET n == Len(RoundRobinQ)
        IN /\ \A k \in 1 .. Len(served) : served[k] = RoundRobinQ[((k - 1) % n) + 1]
           /\ \A r \in Reader :
                 reader[r] = "step" => /\ Len(served) > 0
                                       /\ LastSlaveIndex = (Len(served) - 1) % n
           /\ (\A r \in Reader : reader[r] # "step") => LastSlaveIndex = Len(served) % n

QueueInv == cfg \in Configs /\ QueueType /\ Building /\ SharesKept /\ InOrder

\* The transactions.
TxInv ==
    /\ tx \in [Writer -> Tx]
    /\ IsFiniteSet(InUse) /\ Cardinality(InUse) <= MaxConnNum

-----------------------------------------------------------------------------
(* Transactions never use more than MaxConnNum connections *)

\* Connections given back are no problem.
LEMMA InUseShrinks ==
    ASSUME TxInv, InUse' \subseteq InUse
    PROVE  IsFiniteSet(InUse') /\ Cardinality(InUse') <= MaxConnNum
<1>1. PICK S, T : S = InUse /\ T = InUse'
  OBVIOUS
<1>2. IsFiniteSet(S) /\ T \in SUBSET S /\ Cardinality(S) <= MaxConnNum
  BY <1>1 DEF TxInv
<1>3. IsFiniteSet(T) /\ Cardinality(T) <= Cardinality(S)
  BY <1>2, FS_Subset
<1>4. Cardinality(S) \in Nat /\ Cardinality(T) \in Nat
  BY <1>2, <1>3, FS_CardinalityType
<1> QED
  BY <1>1, <1>2, <1>3, <1>4, DaoAssumption

\* One writer moves on, with a connection only if it had one.
LEMMA GotoType ==
    ASSUME TxInv, NEW w \in Writer, NEW l \in {"idle", "begin", "open", "left"}, Goto(w, l),
           l \in {"open", "left"} => w \in InUse
    PROVE  TxInv'
<1>1. tx' \in [Writer -> Tx]
  BY DEF TxInv, Goto, Tx
<1>2. \A v \in Writer : tx'[v].pc = IF v = w THEN l ELSE tx[v].pc
  BY DEF TxInv, Goto, Tx
<1>3. InUse' \subseteq InUse
  BY <1>2 DEF InUse
<1> QED
  BY <1>1, <1>3, InUseShrinks DEF TxInv

\* No step takes a connection beyond MaxConnNum (node.go:245).
LEMMA TxStep == TxInv /\ [Next]_vars => TxInv'
<1> SUFFICES ASSUME TxInv, [Next]_vars PROVE TxInv'
  OBVIOUS
<1>1. CASE UNCHANGED tx
  <2>1. InUse' = InUse
    BY <1>1 DEF InUse
  <2> QED
    BY <1>1, <2>1 DEF TxInv
<1>2. ASSUME NEW w \in Writer, BeginTransaction(w) PROVE TxInv'
  <2>1. PICK rt \in Runtimes : tx' = [tx EXCEPT ![w] = [pc |-> "begin", left |-> Runtime(rt)]]
    BY <1>2 DEF BeginTransaction
  <2>2. Runtime(rt) \in 0 .. TRANSACTION_MAX_RUNTIME
    BY DaoAssumption DEF Runtime
  <2>3. tx' \in [Writer -> Tx]
    BY <2>1, <2>2 DEF TxInv, Tx
  <2>4. \A v \in Writer : tx'[v].pc = IF v = w THEN "begin" ELSE tx[v].pc
    BY <2>1 DEF TxInv, Tx
  <2>5. InUse' \subseteq InUse
    BY <2>4 DEF InUse
  <2> QED
    BY <2>3, <2>5, InUseShrinks DEF TxInv
<1>3. ASSUME NEW w \in Writer, BeginTx(w), Goto(w, "open") PROVE TxInv'
  <2>1. tx' \in [Writer -> Tx]
    BY <1>3 DEF TxInv, Goto, Tx
  <2>2. \A v \in Writer : tx'[v].pc = IF v = w THEN "open" ELSE tx[v].pc
    BY <1>3 DEF TxInv, Goto, Tx
  <2>3. PICK S, T : S = InUse /\ T = InUse'
    OBVIOUS
  <2>4. T = S \cup {w}
    BY <2>2, <2>3 DEF InUse
  <2>5. IsFiniteSet(S) /\ Cardinality(S) < MaxConnNum
    BY <1>3, <2>3 DEF TxInv, BeginTx
  <2>6. /\ IsFiniteSet(T) /\ Cardinality(S) \in Nat
        /\ Cardinality(T) = Cardinality(S) \/ Cardinality(T) = Cardinality(S) + 1
    BY <2>4, <2>5, FS_AddElement, FS_CardinalityType
  <2>7. Cardinality(T) <= MaxConnNum
    BY <2>5, <2>6, DaoAssumption
  <2> QED
    BY <2>1, <2>3, <2>6, <2>7 DEF TxInv
<1>4. ASSUME NEW w \in Writer, Goto(w, "idle") PROVE TxInv'
  BY <1>4, GotoType
<1>5. ASSUME NEW w \in Writer, FinishLate(w) PROVE TxInv'
  BY <1>5, GotoType DEF FinishLate, InUse
<1>6. CASE Tick
  <2>1. tx' = [w \in Writer |-> [tx[w] EXCEPT !.left = IF @ > 0 THEN @ - 1 ELSE @]]
    BY <1>6 DEF Tick
  <2>2. \A w \in Writer : /\ tx'[w] \in Tx
                          /\ tx'[w].pc = tx[w].pc
    BY <2>1, DaoAssumption DEF TxInv, Tx
  <2>3. tx' \in [Writer -> Tx]
    BY <2>1, <2>2
  <2>4. InUse' \subseteq InUse
    BY <2>2 DEF InUse
  <2> QED
    BY <2>3, <2>4, InUseShrinks DEF TxInv
<1>7. NewNode => UNCHANGED tx
  BY DEF NewNode, Start, OpenFails, InitBalancer, AppendSlave, RandomOrder, Shuffle, Ready
<1>8. \A r \in Reader : GetSlaveConn(r) => UNCHANGED tx
  BY DEF GetSlaveConn, Lock, Pick, Step
<1>9. \A w \in Writer :
        Transaction(w) => \/ BeginTransaction(w) \/ FinishLate(w) \/ Goto(w, "idle")
                          \/ BeginTx(w) /\ Goto(w, "open")
  BY DEF Transaction, BeginTx, BeginExpires, Finish, Expire
<1>10. CASE UNCHANGED vars
  BY <1>1, <1>10 DEF vars
<1> QED
  BY <1>1, <1>2, <1>3, <1>4, <1>5, <1>6, <1>7, <1>8, <1>9, <1>10 DEF Next

-----------------------------------------------------------------------------
(* The queue is built, shuffled and walked round *)

\* A queue InitBalancer has filled is not empty.
LEMMA QueueFull ==
    ASSUME QueueInv, phase \in {"shuffle", "ready"}
    PROVE  Len(RoundRobinQ) \in Nat \ {0}
<1> DEFINE w == cfg.weights
<1>1. w \in Seq(Nat) /\ ~Panics(w) /\ index = Len(w)
  BY DaoAssumption DEF QueueInv, Building
<1>2. 1 \in DOMAIN w /\ 1 <= index
  BY <1>1 DEF Panics
<1>3. Cardinality(Places(RoundRobinQ, 1)) = Share(w, 1)
  BY <1>2 DEF QueueInv, SharesKept
<1>4. Share(w, 1) # 0
  BY <1>1, <1>2, Shares
<1>5. Places(RoundRobinQ, 1) # {}
  BY <1>3, <1>4, FS_EmptySet
<1> QED
  BY <1>5 DEF Places, QueueInv, QueueType

\* Building and shuffling the queue keeps the shares (balancer.go:40-67).
LEMMA NewNodeQueue == QueueInv /\ NewNode => QueueInv'
<1> SUFFICES ASSUME QueueInv, NewNode PROVE QueueInv'
  OBVIOUS
<1> USE DEF QueueInv
<1> DEFINE w == cfg.weights
<1>1. w \in Seq(Nat) /\ DOMAIN w = 1 .. Len(w) /\ Len(w) \in Nat
  BY DaoAssumption
<1>2. CASE Start \/ OpenFails
  BY <1>2 DEF Start, OpenFails, QueueType, Building, SharesKept, InOrder, balancer, readers
<1>3. CASE InitBalancer
  <2>1. CASE Panics(w)
    BY <1>3, <2>1 DEF InitBalancer, QueueType, Building, SharesKept, InOrder, readers
  <2>2. CASE ~Panics(w)
    <3>1. /\ phase' = "append" /\ LastSlaveIndex' = 0 /\ index = 0 /\ RoundRobinQ = << >>
          /\ UNCHANGED <<cfg, RoundRobinQ, index, swaps, lock, reader, served>>
      BY <1>3, <2>2 DEF InitBalancer, Building, readers
    <3>2. \A i : Places(RoundRobinQ, i) = {}
      BY <3>1 DEF Places
    <3>3. SharesKept'
      <4> SUFFICES ASSUME NEW i \in DOMAIN w
                   PROVE  Cardinality(Places(RoundRobinQ, i)) = IF i <= index THEN Share(w, i) ELSE 0
        BY <3>1 DEF SharesKept
      <4>1. ~(i <= index)
        BY <1>1, <3>1
      <4> QED
        BY <3>2, <4>1, FS_EmptySet
    <3>4. Building'
      BY <1>3, <2>2, <3>1 DEF Building, InitBalancer
    <3> QED
      BY <3>1, <3>3, <3>4 DEF QueueType, InOrder
  <2> QED
    BY <2>1, <2>2
<1>4. CASE AppendSlave
  <2> DEFINE j == index + 1
             c == Share(w, j)
             q == RoundRobinQ \o [k \in 1 .. c |-> j]
  <2>1. /\ phase = "append" /\ index < Len(w) /\ index' = j /\ RoundRobinQ' = q
        /\ UNCHANGED <<cfg, phase, LastSlaveIndex, swaps, lock, reader, served>>
    BY <1>4 DEF AppendSlave, readers
  <2>2. index \in Nat /\ j \in DOMAIN w /\ RoundRobinQ \in Seq(DOMAIN w)
    BY <1>1, <2>1 DEF QueueType
  <2>3. ~Panics(w) /\ c \in Nat
    BY <1>1, <2>1, <2>2, Shares DEF Building
  <2>4. Places(RoundRobinQ, j) = {}
    <3>1. Cardinality(Places(RoundRobinQ, j)) = 0
      BY <2>1, <2>2 DEF SharesKept
    <3> QED
      BY <2>2, <3>1, PlacesFinite, FS_EmptySet
  <2> HIDE DEF c
  <2>5. /\ q \in Seq(DOMAIN w) /\ Len(q) = Len(RoundRobinQ) + c
        /\ \A i : Cardinality(Places(q, i)) = IF i = j THEN c ELSE Cardinality(Places(RoundRobinQ, i))
    BY <2>2, <2>3, <2>4, AppendCounts
  <2> HIDE DEF q
  <2>6. SharesKept'
    <3> SUFFICES ASSUME NEW i \in DOMAIN w
                 PROVE  Cardinality(Places(q, i)) = IF i <= j THEN Share(w, i) ELSE 0
      BY <2>1 DEF SharesKept
    <3>1. Cardinality(Places(RoundRobinQ, i)) = IF i <= index THEN Share(w, i) ELSE 0
      BY <2>1 DEF SharesKept
    <3>2. i \in Nat
      BY <1>1
    <3> QED
      BY <2>2, <2>5, <3>1, <3>2 DEF c
  <2>7. QueueType'
    BY <1>1, <2>1, <2>2, <2>3, <2>5 DEF QueueType, Building
  <2> QED
    BY <2>1, <2>6, <2>7 DEF Building, InOrder
<1>5. CASE RandomOrder
  BY <1>5 DEF RandomOrder, QueueType, Building, SharesKept, InOrder, readers
<1>6. CASE Shuffle
  <2>1. PICK x \in 0 .. Len(RoundRobinQ) - 1 :
          RoundRobinQ' = [RoundRobinQ EXCEPT
                             ![x + 1] = RoundRobinQ[(Len(RoundRobinQ) % (x + 1)) + 1],
                             ![(Len(RoundRobinQ) % (x + 1)) + 1] = RoundRobinQ[x + 1]]
    BY <1>6 DEF Shuffle
  <2>2. PICK n \in Nat \ {0} : n = Len(RoundRobinQ)
    BY <1>6, QueueFull DEF Shuffle
  <2>3. PICK y \in 1 .. n : y = (n % (x + 1)) + 1
    <3>1. n % (x + 1) \in 0 .. x
      BY <2>2
    <3> QED
      BY <2>2, <3>1
  <2>4. PICK z \in 1 .. n : z = x + 1
    BY <2>2
  <2>5. /\ RoundRobinQ' = [RoundRobinQ EXCEPT ![z] = RoundRobinQ[y], ![y] = RoundRobinQ[z]]
        /\ swaps' = swaps - 1 /\ swaps > 0 /\ phase = "shuffle"
        /\ UNCHANGED <<cfg, phase, LastSlaveIndex, index, lock, reader, served>>
    BY <1>6, <2>1, <2>2, <2>3, <2>4 DEF Shuffle, readers
  <2>6. RoundRobinQ \in Seq(DOMAIN w)
    BY DEF QueueType
  <2>7. /\ RoundRobinQ' \in Seq(DOMAIN w) /\ Len(RoundRobinQ') = Len(RoundRobinQ)
        /\ \A i : Cardinality(Places(RoundRobinQ', i)) = Cardinality(Places(RoundRobinQ, i))
    <3>1. PICK q \in Seq(DOMAIN w) : q = RoundRobinQ
      BY <2>6
    <3>2. y \in 1 .. Len(q) /\ z \in 1 .. Len(q)
      BY <2>2, <3>1
    <3>3. [q EXCEPT ![z] = q[y], ![y] = q[z]] \in Seq(DOMAIN w)
      BY <3>2
    <3>4. PICK r \in Seq(DOMAIN w) :
            r = RoundRobinQ' /\ Len(r) = Len(q) /\ Swapped(q, r, z, y)
      <4>1. PICK r \in Seq(DOMAIN w) : r = [q EXCEPT ![z] = q[y], ![y] = q[z]]
        BY <3>3
      <4>2. r = RoundRobinQ'
        BY <2>5, <3>1, <4>1
      <4>3. Len(r) = Len(q)
        BY <4>1
      <4>4. Swapped(q, r, z, y)
        BY <3>2, <4>1 DEF Swapped
      <4> QED
        BY <4>2, <4>3, <4>4
    <3>5. ASSUME NEW i PROVE Cardinality(Places(r, i)) = Cardinality(Places(q, i))
      BY <3>2, <3>4, SwapCounts
    <3> QED
      BY <3>1, <3>4, <3>5
  <2>8. SharesKept'
    BY <2>5, <2>7 DEF SharesKept
  <2>9. QueueType'
    <3>1. swaps' \in 0 .. Len(RoundRobinQ')
      <4>1. PICK m \in Nat : m = swaps /\ m <= n
        BY <2>2 DEF QueueType
      <4>2. swaps' = m - 1 /\ m > 0 /\ Len(RoundRobinQ') = n
        BY <2>2, <2>5, <2>7, <4>1
      <4>3. m - 1 \in 0 .. n
        BY <4>1, <4>2
      <4> QED
        BY <4>2, <4>3
    <3>2. RoundRobinQ' \in Seq(DOMAIN cfg'.weights)
      BY <2>5, <2>7
    <3>3. LastSlaveIndex' \in Nat /\ (LastSlaveIndex' = 0 \/ LastSlaveIndex' < Len(RoundRobinQ'))
      BY <2>5, <2>7 DEF QueueType
    <3> QED
      BY <2>5, <3>1, <3>2, <3>3, Zenon DEF QueueType
  <2> QED
    BY <2>5, <2>8, <2>9 DEF Building, InOrder
<1>7. CASE Ready
  <2>1. /\ phase = "shuffle" /\ phase' = "ready" /\ swaps = 0 /\ lock = None /\ served = << >>
        /\ LastSlaveIndex = 0
        /\ UNCHANGED <<cfg, RoundRobinQ, LastSlaveIndex, index, swaps, lock, reader, served>>
    BY <1>7 DEF Ready, Building, balancer, readers
  <2>2. Len(RoundRobinQ) \in Nat \ {0}
    BY <2>1, QueueFull
  <2>3. \A r \in Reader : reader[r] # "step"
    BY <2>1, DaoAssumption DEF QueueType
  <2>4. 0 % Len(RoundRobinQ) = 0
    BY <2>2
  <2>5. InOrder'
    BY <2>1, <2>3, <2>4 DEF InOrder
  <2> QED
    BY <2>1, <2>5 DEF QueueType, Building, SharesKept
<1> QED
  BY <1>2, <1>3, <1>4, <1>5, <1>6, <1>7 DEF NewNode

\* A call goes on where the last one stopped (balancer.go:69-89).
LEMMA GetSlaveConnQueue ==
    ASSUME NEW r \in Reader
    PROVE  QueueInv /\ GetSlaveConn(r) => QueueInv'
<1> SUFFICES ASSUME QueueInv, GetSlaveConn(r) PROVE QueueInv'
  OBVIOUS
<1> USE DEF QueueInv
<1>1. CASE Lock(r)
  BY <1>1, DaoAssumption DEF Lock, QueueType, Building, SharesKept, InOrder, balancer
<1>2. ASSUME reader[r] \in {"pick", "step"}
      PROVE  /\ phase = "ready" /\ lock = r /\ \A x \in Reader : x # r => reader[x] = "idle"
             /\ Len(RoundRobinQ) \in Nat \ {0} /\ LastSlaveIndex \in 0 .. Len(RoundRobinQ) - 1
  <2>1. lock = r /\ lock # None
    BY <1>2, DaoAssumption DEF QueueType
  <2>2. phase = "ready"
    BY <2>1 DEF Building
  <2>3. Len(RoundRobinQ) \in Nat \ {0}
    BY <2>2, QueueFull
  <2> QED
    BY <2>1, <2>2, <2>3 DEF QueueType
<1>3. CASE Pick(r)
  <2>1. /\ reader[r] = "pick" /\ reader' = [reader EXCEPT ![r] = "step"]
        /\ LastSlaveIndex' = IF Len(RoundRobinQ) = 1 THEN LastSlaveIndex
                             ELSE LastSlaveIndex % Len(RoundRobinQ)
        /\ served' = Append(served, RoundRobinQ[LastSlaveIndex' + 1])
        /\ UNCHANGED <<cfg, phase, RoundRobinQ, index, swaps, lock>>
    BY <1>3 DEF Pick
  <2>2. /\ phase = "ready" /\ lock = r /\ \A x \in Reader : x # r => reader[x] = "idle"
        /\ Len(RoundRobinQ) \in Nat \ {0} /\ LastSlaveIndex \in 0 .. Len(RoundRobinQ) - 1
    BY <1>2, <2>1
  <2>3. LastSlaveIndex' = LastSlaveIndex
    <3>1. PICK n \in Nat \ {0}, l \in Nat : n = Len(RoundRobinQ) /\ l = LastSlaveIndex /\ l < n
      BY <2>2
    <3>2. l % n = l
      BY <3>1
    <3> QED
      BY <2>1, <3>1, <3>2
  <2>4. LastSlaveIndex = Len(served) % Len(RoundRobinQ)
    BY <2>1, <2>2 DEF InOrder
  <2>5. RoundRobinQ[LastSlaveIndex + 1] \in DOMAIN cfg.weights
    BY <2>2 DEF QueueType
  <2>6. /\ served \in Seq(DOMAIN cfg.weights) /\ served' \in Seq(DOMAIN cfg.weights)
        /\ Len(served) \in Nat /\ Len(served') = Len(served) + 1
        /\ served'[Len(served) + 1] = RoundRobinQ[LastSlaveIndex + 1]
        /\ \A k \in 1 .. Len(served) : served'[k] = served[k]
    <3>1. PICK e \in DOMAIN cfg.weights : e = RoundRobinQ[LastSlaveIndex + 1]
      BY <2>5
    <3>2. PICK s \in Seq(DOMAIN cfg.weights) : s = served
      BY DEF QueueType
    <3>3. /\ Append(s, e) \in Seq(DOMAIN cfg.weights)
          /\ Len(s) \in Nat /\ Len(Append(s, e)) = Len(s) + 1
          /\ Append(s, e)[Len(s) + 1] = e
          /\ \A k \in 1 .. Len(s) : Append(s, e)[k] = s[k]
      OBVIOUS
    <3>4. served' = Append(s, e)
      BY <2>1, <2>3, <3>1, <3>2
    <3> QED
      BY <3>1, <3>2, <3>3, <3>4
  <2>7. \A k \in 1 .. Len(served') : served'[k] = RoundRobinQ[((k - 1) % Len(RoundRobinQ)) + 1]
    <3> SUFFICES ASSUME NEW k \in 1 .. Len(served')
                 PROVE  served'[k] = RoundRobinQ[((k - 1) % Len(RoundRobinQ)) + 1]
      OBVIOUS
    <3>1. CASE k \in 1 .. Len(served)
      BY <2>2, <2>6, <3>1 DEF InOrder
    <3>2. CASE k = Len(served) + 1
      <4>1. k - 1 = Len(served)
        BY <2>6, <3>2
      <4> QED
        BY <2>4, <2>6, <3>2, <4>1
    <3> QED
      BY <2>6, <3>1, <3>2
  <2>8. Len(served') > 0 /\ LastSlaveIndex' = (Len(served') - 1) % Len(RoundRobinQ)
    <3>1. Len(served') - 1 = Len(served)
      BY <2>6
    <3> QED
      BY <2>3, <2>4, <2>6, <3>1
  <2>9. InOrder'
    <3>1. \E x \in Reader : reader'[x] = "step"
      BY <2>1 DEF QueueType
    <3> QED
      BY <2>1, <2>7, <2>8, <3>1 DEF InOrder
  <2>10. QueueType'
    BY <2>1, <2>2, <2>3, <2>6 DEF QueueType
  <2> QED
    BY <2>1, <2>2, <2>9, <2>10 DEF Building, SharesKept
<1>4. CASE Step(r)
  <2>1. /\ reader[r] = "step" /\ reader' = [reader EXCEPT ![r] = "idle"] /\ lock' = None
        /\ LastSlaveIndex' = IF Len(RoundRobinQ) = 1 THEN LastSlaveIndex
                             ELSE (LastSlaveIndex + 1) % Len(RoundRobinQ)
        /\ UNCHANGED <<cfg, phase, RoundRobinQ, index, swaps, served>>
    BY <1>4 DEF Step
  <2>2. /\ phase = "ready" /\ lock = r /\ \A x \in Reader : x # r => reader[x] = "idle"
        /\ Len(RoundRobinQ) \in Nat \ {0} /\ LastSlaveIndex \in 0 .. Len(RoundRobinQ) - 1
    BY <1>2, <2>1
  <2>3. PICK n \in Nat \ {0}, l \in Nat, a \in Nat :
          /\ n = Len(RoundRobinQ) /\ l = LastSlaveIndex /\ a + 1 = Len(served)
          /\ l < n /\ l = a % n
    <3>1. Len(served) \in Nat /\ Len(served) > 0
          /\ LastSlaveIndex = (Len(served) - 1) % Len(RoundRobinQ)
      BY <2>1, <2>2 DEF QueueType, InOrder
    <3>2. PICK a \in Nat : a = Len(served) - 1 /\ a + 1 = Len(served)
      BY <3>1
    <3>3. PICK n \in Nat \ {0}, l \in Nat : n = Len(RoundRobinQ) /\ l = LastSlaveIndex /\ l < n
      BY <2>2
    <3>4. l = a % n
      BY <3>1, <3>2, <3>3, Zenon
    <3> QED
      BY <3>2, <3>3, <3>4
  <2>4. LastSlaveIndex' = IF l + 1 = n THEN 0 ELSE l + 1
    <3>1. CASE n = 1
      BY <2>1, <2>3, <3>1
    <3>2. CASE n # 1
      <4>1. (l + 1) % n = IF l + 1 = n THEN 0 ELSE l + 1
        BY <2>3, <3>2
      <4> QED
        BY <2>1, <2>3, <3>2, <4>1
    <3> QED
      BY <3>1, <3>2
  <2>5. (a + 1) % n = IF l + 1 = n THEN 0 ELSE l + 1
    <3>1. (a + 1) % n = IF (a % n) + 1 = n THEN 0 ELSE (a % n) + 1
      BY ModNext
    <3> QED
      BY <2>3, <3>1, Zenon
  <2>6. LastSlaveIndex' = Len(served) % Len(RoundRobinQ)
    BY <2>3, <2>4, <2>5
  <2>7. \A x \in Reader : reader'[x] = "idle"
    BY <2>1, <2>2 DEF QueueType
  <2>8. InOrder'
    BY <2>1, <2>2, <2>6, <2>7 DEF InOrder
  <2>9. LastSlaveIndex' \in Nat /\ LastSlaveIndex' < Len(RoundRobinQ)
    BY <2>3, <2>4
  <2>10. QueueType'
    BY <2>1, <2>2, <2>7, <2>9, DaoAssumption DEF QueueType
  <2> QED
    BY <2>1, <2>2, <2>8, <2>10 DEF Building, SharesKept
<1> QED
  BY <1>1, <1>3, <1>4 DEF GetSlaveConn

\* Every step keeps the queue and its order; transactions do not touch them.
LEMMA QueueStep == QueueInv /\ [Next]_vars => QueueInv'
<1> SUFFICES ASSUME QueueInv, [Next]_vars PROVE QueueInv'
  OBVIOUS
<1>1. CASE UNCHANGED <<cfg, phase, balancer, readers>>
  BY <1>1 DEF QueueInv, QueueType, Building, SharesKept, InOrder, balancer, readers
<1>2. (\E w \in Writer : Transaction(w)) \/ Tick => UNCHANGED <<cfg, phase, balancer, readers>>
  BY DEF Transaction, BeginTransaction, BeginTx, BeginExpires, Finish, FinishLate, Expire, Tick, TxOnly
<1>3. CASE UNCHANGED vars
  BY <1>1, <1>3 DEF vars
<1> QED
  BY <1>1, <1>2, <1>3, NewNodeQueue, GetSlaveConnQueue DEF Next

\* The invariant holds in every reachable state.
LEMMA DaoInvariant == Spec => [](QueueInv /\ TxInv)
<1>1. Init => QueueInv
  <2> SUFFICES ASSUME Init PROVE QueueInv
    OBVIOUS
  <2>1. cfg.weights \in Seq(Nat)
    BY DaoAssumption DEF Init
  <2> QED
    BY <2>1, DaoAssumption DEF Init, QueueInv, QueueType, Building, SharesKept, InOrder
<1>2. Init => TxInv
  <2> SUFFICES ASSUME Init PROVE TxInv
    OBVIOUS
  <2>1. InUse = {}
    BY DEF Init, InUse
  <2>2. tx \in [Writer -> Tx]
    BY DaoAssumption DEF Init, Tx
  <2> QED
    BY <2>1, <2>2, FS_EmptySet, DaoAssumption DEF TxInv
<1>3. QueueInv /\ TxInv /\ [Next]_vars => (QueueInv /\ TxInv)'
  BY QueueStep, TxStep
<1> QED
  BY <1>1, <1>2, <1>3, PTL DEF Spec

-----------------------------------------------------------------------------
(* Safety *)

\* Every reachable state is well typed: the index stays in the queue, the lock
\* lets one caller in, and no more than MaxConnNum connections are in use
\* (balancer.go:80-87, node.go:193-206, 232-253).
THEOREM TypeCorrect == Spec => []TypeOK
<1>1. QueueInv /\ TxInv => TypeOK
  BY DEF QueueInv, TxInv, TypeOK
<1> QED
  BY <1>1, DaoInvariant, PTL

\* Any stretch of calls as long as the queue uses the slaves in proportion to
\* their weights, however the queue was shuffled and whoever called
\* (balancer.go:40-89, node.go:193-206).
THEOREM BalanceHolds == Spec => []Balanced
<1>1. QueueInv => Balanced
  <2> SUFFICES ASSUME QueueInv,
                      NEW from \in 1 .. Len(served) - Len(RoundRobinQ) + 1,
                      NEW i \in DOMAIN cfg.weights, NEW j \in DOMAIN cfg.weights
               PROVE  Taken(i, from, from + Len(RoundRobinQ) - 1) * cfg.weights[j]
                        = Taken(j, from, from + Len(RoundRobinQ) - 1) * cfg.weights[i]
    BY DEF Balanced
  <2> USE DEF QueueInv
  <2> DEFINE w == cfg.weights
             to == from + Len(RoundRobinQ) - 1
  <2>1. w \in Seq(Nat) /\ Len(RoundRobinQ) \in Nat /\ Len(served) \in Nat
    BY DaoAssumption DEF QueueType
  <2>2. CASE phase # "ready"
    <3>1. served = << >>
      BY <2>2 DEF Building
    <3>2. to = from - 1
      BY <2>1, <3>1
    <3>3. \A x : Taken(x, from, to) = 0
      <4>1. from .. to = {}
        BY <3>2
      <4> QED
        BY <4>1, FS_EmptySet DEF Taken
    <3> QED
      BY <2>1, <3>3
  <2>3. CASE phase = "ready"
    <3>1. PICK n \in Nat \ {0} : n = Len(RoundRobinQ)
      BY <2>3, QueueFull
    <3>2. PICK a \in Nat : from = a + 1 /\ from .. to = a + 1 .. a + n /\ a + n <= Len(served)
      BY <2>1, <3>1
    <3>3. \A k \in a + 1 .. a + n : served[k] = RoundRobinQ[((k - 1) % n) + 1]
      BY <2>1, <2>3, <3>1, <3>2 DEF InOrder
    <3>4. ASSUME NEW x \in DOMAIN w PROVE Taken(x, from, to) = Share(w, x)
      <4>1. RoundRobinQ \in Seq(DOMAIN w) /\ RoundRobinQ # << >>
        BY <3>1 DEF QueueType
      <4>2. PICK q \in Seq(DOMAIN w) : q = RoundRobinQ /\ q # << >> /\ Len(q) = n
        BY <3>1, <4>1
      <4>3. PICK s : s = served
        OBVIOUS
      <4>4. Follows(s, q, a)
        BY <3>3, <4>2, <4>3 DEF Follows
      <4>5. Cardinality(Met(s, a, Len(q), x)) = Cardinality(Places(q, x))
        BY <4>2, <4>4, RoundCounts
      <4>6. Cardinality({k \in a + 1 .. a + n : served[k] = x}) = Cardinality(Places(RoundRobinQ, x))
        BY <4>2, <4>3, <4>5, Zenon DEF Met
      <4>7. x <= index
        BY <2>1, <2>3 DEF Building
      <4>8. Cardinality(Places(RoundRobinQ, x)) = Share(w, x)
        BY <2>3, <4>7 DEF SharesKept
      <4> QED
        BY <3>2, <4>6, <4>8 DEF Taken
    <3>5. ~Panics(w)
      BY <2>3 DEF Building
    <3>6. PICK g \in Nat, b \in Nat, c \in Nat :
            w[i] = g * b /\ w[j] = g * c /\ b = Share(w, i) /\ c = Share(w, j)
      BY <2>1, <3>5, Shares, GcdDivides
    <3>7. b * (g * c) = c * (g * b)
      OBVIOUS
    <3> QED
      BY <3>4, <3>6, <3>7
  <2> QED
    BY <2>2, <2>3
<1> QED
  BY <1>1, DaoInvariant, PTL

-----------------------------------------------------------------------------
(* Sharding: numbers and keys *)

\* Whoever keeps all the places keeps the sequence.
LEMMA AtAll ==
    ASSUME NEW T, NEW s \in Seq(T)
    PROVE  At(s, 1 .. Len(s)) = s
<1> DEFINE S == 1 .. Len(s)
           place(i) == CHOOSE k \in S : Cardinality({j \in S : j <= k}) = i
<1>1. Len(s) \in Nat
  OBVIOUS
<1>2. Cardinality(S) = Len(s)
  <2>1. PICK m \in Int : m = Len(s) /\ m >= 0
    BY <1>1
  <2>2. Cardinality(1 .. m) = IF 1 > m THEN 0 ELSE m - 1 + 1
    BY FS_Interval
  <2> QED
    BY <2>1, <2>2
<1>3. ASSUME NEW k \in S PROVE Cardinality({j \in S : j <= k}) = k
  <2>1. {j \in S : j <= k} = 1 .. k
    BY <1>1
  <2>2. Cardinality(1 .. k) = k
    <3>1. PICK m \in Int : m = k /\ m >= 1
      BY <1>1
    <3>2. Cardinality(1 .. m) = IF 1 > m THEN 0 ELSE m - 1 + 1
      BY FS_Interval
    <3> QED
      BY <3>1, <3>2
  <2> QED
    BY <2>1, <2>2
<1> HIDE DEF S
<1>4. ASSUME NEW i \in S PROVE place(i) = i
  BY <1>3
<1>5. At(s, S) = [i \in 1 .. Len(s) |-> s[place(i)]]
  BY <1>2 DEF At
<1>6. \A i \in 1 .. Len(s) : s[place(i)] = s[i]
  BY <1>4 DEF S
<1>7. [i \in 1 .. Len(s) |-> s[place(i)]] = [i \in 1 .. Len(s) |-> s[i]]
  BY <1>6
<1>8. s = [i \in 1 .. Len(s) |-> s[i]]
  OBVIOUS
<1> HIDE DEF place
<1> QED
  BY <1>5, <1>7, <1>8, Zenon DEF S

\* The width of integers in terms of the largest.
LEMMA Width ==
    MaxNumKey \in Nat /\ MaxNumKey >= 3 /\ 2 ^ Bits = 2 * MaxNumKey + 2
<1>1. PICK h \in Nat : h = 2 ^ (Bits - 1) /\ h >= 4 /\ 2 ^ Bits = 2 * h
  BY BitsAssumption
<1> QED
  BY <1>1 DEF MaxNumKey

\* A number that has room stays as it is.
LEMMA UnsignedIs ==
    ASSUME NEW n \in 0 .. MaxNumKey
    PROVE  Unsigned(n) = n
<1>1. PICK w \in Nat : w = 2 ^ Bits /\ n < w /\ w > 0
  BY Width
<1>2. n \in Nat /\ n % w = n
  BY <1>1, Width
<1> QED
  BY <1>1, <1>2 DEF Unsigned

\* With a sign too.
LEMMA SignedIs ==
    ASSUME NEW n \in -MaxNumKey - 1 .. MaxNumKey
    PROVE  Signed(n) = n
<1>1. CASE n >= 0
  <2>1. n \in 0 .. MaxNumKey
    BY <1>1, Width
  <2>2. Unsigned(n) = n
    BY <2>1, UnsignedIs
  <2>3. ~(n > MaxNumKey)
    BY <2>1, Width
  <2> QED
    BY <2>2, <2>3 DEF Signed
<1>2. CASE n < 0
  <2>1. PICK w \in Nat, m \in Nat : w = 2 ^ Bits /\ m = MaxNumKey /\ w = 2 * m + 2
    BY Width
  <2>2. n \in Int /\ n >= -m - 1 /\ n < 0
    BY <1>2, <2>1
  <2>3. n % w = n + w
    BY <2>1, <2>2
  <2>4. Unsigned(n) = n + w
    BY <2>1, <2>3 DEF Unsigned
  <2>5. n + w > m /\ (n + w) - w = n
    BY <2>1, <2>2
  <2> QED
    BY <2>1, <2>4, <2>5 DEF Signed
<1> QED
  BY <1>1, <1>2, Width

\* One numeral is the number it shows.
LEMMA OneNumeral ==
    ASSUME NEW n \in Nat
    PROVE  Parsed(<<n>>) = n /\ IsNumeral(<<n>>)
<1> DEFINE t == <<n>>
           g == [k \in 1 .. 1 |-> n]
           F(m) == [k \in 1 .. Len(t) |->
                       IF k = 1 THEN Abs(t[1]) ELSE m[k - 1] * 10 ^ Digits(Abs(t[k])) + Abs(t[k])]
           mm == CHOOSE m : m = F(m)
<1>1. Len(t) = 1 /\ t[1] = n /\ Abs(n) = n
  BY DEF Abs
<1>2. \A m : F(m) = g
  <2> SUFFICES ASSUME NEW m PROVE F(m) = g
    OBVIOUS
  <2>1. \A k \in 1 .. 1 : k = 1
    OBVIOUS
  <2> QED
    BY <1>1, <2>1
<1> HIDE DEF F
<1>3. mm = g
  BY <1>2
<1>4. g[1] = n
  OBVIOUS
<1>5. Magnitude(t) = mm[Len(t)]
  BY Zenon DEF Magnitude, F
<1> HIDE DEF mm, g, t
<1>6. Magnitude(t) = n
  BY <1>1, <1>3, <1>4, <1>5
<1> USE DEF t
<1>7. ~(t[1] < 0)
  BY <1>1
<1>8. Parsed(t) = n
  BY <1>6, <1>7 DEF Parsed
<1>9. IsNumeral(t)
  BY <1>1 DEF IsNumeral
<1> QED
  BY <1>8, <1>9

\* An integer of any type has its own value ...
LEMMA NumberValue ==
    ASSUME NEW rule \in {"mod", "range"}, NEW type \in Integer, NEW n \in 0 .. MaxNumKey
    PROVE  KeyValue(rule, Number(type, n)) = Ok(n)
<1>1. n \in -MaxNumKey - 1 .. MaxNumKey
  BY Width
<1>2. Unsigned(n) = n /\ Signed(n) = n
  BY <1>1, UnsignedIs, SignedIs
<1>3. Number(type, n).type = type /\ Number(type, n).num = n
  BY DEF Number
<1>4. ModValue(Number(type, n)) = Ok(n) /\ NumValue(Number(type, n)) = Ok(n)
  BY <1>2, <1>3 DEF ModValue, NumValue, Integer
<1> QED
  BY <1>4 DEF KeyValue

\* ... which its numeral has too.
LEMMA NumeralValue ==
    ASSUME NEW rule \in {"mod", "range"}, NEW n \in 0 .. MaxNumKey
    PROVE  KeyValue(rule, Text("string", <<n>>)) = Ok(n)
<1>1. n \in Nat /\ n < 2 ^ Bits /\ n \in -MaxNumKey - 1 .. MaxNumKey
  BY Width
<1>2. Parsed(<<n>>) = n /\ IsNumeral(<<n>>)
  BY <1>1, OneNumeral
<1>3. IsUint(<<n>>) /\ IsInt(<<n>>)
  BY <1>1, <1>2 DEF IsUint, IsInt
<1>4. Text("string", <<n>>).type = "string" /\ Text("string", <<n>>).text = <<n>>
  BY DEF Text
<1>5. ModValue(Text("string", <<n>>)) = Ok(n) /\ NumValue(Text("string", <<n>>)) = Ok(n)
  BY <1>2, <1>3, <1>4 DEF ModValue, NumValue, Integer
<1> QED
  BY <1>5 DEF KeyValue

\* Of two keys only the values matter.
LEMMA PairValue ==
    ASSUME NEW rule, NEW k, NEW l, NEW n \in 0 .. MaxNumKey, NEW m \in 0 .. MaxNumKey,
           KeyValue(rule, k) = Ok(n), KeyValue(rule, l) = Ok(m)
    PROVE  Joined(rule, <<k, l>>) = KeyValue(rule, Text("string", <<n, m>>))
<1> DEFINE keys == <<k, l>>
           good == At(keys, {i \in 1 .. Len(keys) : KeyValue(rule, keys[i]).out = "ok"})
<1>1. Len(keys) = 2 /\ keys[1] = k /\ keys[2] = l /\ keys \in Seq({k, l})
  OBVIOUS
<1>2. Ok(n).out = "ok" /\ Ok(n).v = n /\ Ok(m).out = "ok" /\ Ok(m).v = m
  BY DEF Ok
<1>3. \A i \in 1 .. Len(keys) : i = 1 \/ i = 2
  BY <1>1
<1>4. \A i \in 1 .. Len(keys) : KeyValue(rule, keys[i]).out = "ok"
  BY <1>1, <1>2, <1>3
<1> HIDE DEF keys
<1>5. good = keys
  <2>1. {i \in 1 .. Len(keys) : KeyValue(rule, keys[i]).out = "ok"} = 1 .. Len(keys)
    BY <1>4
  <2>2. At(keys, 1 .. Len(keys)) = keys
    BY <1>1, AtAll
  <2> QED
    BY <2>1, <2>2, Zenon
<1>6. n \in -MaxNumKey - 1 .. MaxNumKey /\ m \in -MaxNumKey - 1 .. MaxNumKey
  BY Width
<1>7. Signed(n) = n /\ Signed(m) = m
  BY <1>6, SignedIs
<1> HIDE DEF good
<1>8. Signed(KeyValue(rule, good[1]).v) = n /\ Signed(KeyValue(rule, good[2]).v) = m
  BY <1>1, <1>2, <1>5, <1>7
<1>9. [i \in 1 .. Len(good) |-> Signed(KeyValue(rule, good[i]).v)] = <<n, m>>
  <2>1. [i \in 1 .. Len(good) |-> Signed(KeyValue(rule, good[i]).v)] = [i \in 1 .. 2 |-> IF i = 1 THEN n ELSE m]
    BY <1>1, <1>3, <1>5, <1>8
  <2>2. [i \in 1 .. 2 |-> IF i = 1 THEN n ELSE m] = <<n, m>>
    OBVIOUS
  <2> QED
    BY <2>1, <2>2, Zenon
<1>10. Joined(rule, keys) = KeyValue(rule, Text("string", [i \in 1 .. Len(good) |-> Signed(KeyValue(rule, good[i]).v)]))
  <2>1. Len(keys) # 1 /\ ~\E i \in 1 .. Len(keys) : KeyValue(rule, keys[i]).out = "panic"
    BY <1>1, <1>4
  <2> QED
    BY <2>1, Zenon DEF Joined, good
<1> QED
  BY <1>9, <1>10, Zenon DEF keys

-----------------------------------------------------------------------------
(* Sharding: rules *)

\* No table has two rules.
Apart(rules) == \A i, j \in DOMAIN rules : rules[i].table = rules[j].table => i = j

\* The index is what the table's own rule finds.
LEMMA OwnRule ==
    ASSUME NEW rules \in Seq(ShardConfig), Apart(rules), \A i \in DOMAIN rules : rules[i].type \in Rules,
           NEW k \in DOMAIN rules, NEW keys
    PROVE  GetTable(rules, ParseShard(rules), rules[k].table, keys) = FindForKey(rules[k], keys)
<1> DEFINE found == {i \in 1 .. Len(rules) : rules[i].table = rules[k].table}
<1>1. DOMAIN rules = 1 .. Len(rules) /\ Len(rules) \in Nat
  OBVIOUS
<1>2. ParseShard(rules) = rules
  <2>1. {i \in 1 .. Len(rules) : rules[i].type \in Rules} = 1 .. Len(rules)
    BY <1>1
  <2>2. At(rules, 1 .. Len(rules)) = rules
    BY AtAll
  <2> QED
    BY <2>1, <2>2, Zenon DEF ParseShard
<1>3. found = {k}
  BY <1>1 DEF Apart
<1>4. (CHOOSE x \in {k} : \A y \in {k} : x <= y) = k
  BY <1>1
<1>5. ~(k > Len(rules))
  BY <1>1
<1> HIDE DEF found
<1>6. (CHOOSE x \in found : \A y \in found : x <= y) = k /\ found # {}
  BY <1>3, <1>4
<1> QED
  BY <1>2, <1>5, <1>6 DEF GetTable, found

\* What a range rule makes of a value.
Ranged(c, v) ==
    LET in == {i \in 0 .. c.locations - 1 : Contains(NumKeyRange(c, i), v.v)}
    IN IF c.locations = 0 THEN Err
       ELSE IF v.out # "ok" THEN v
       ELSE IF in = {} THEN Err ELSE Ok(CHOOSE i \in in : \A k \in in : i <= k)

\* A range rule looks at nothing but the value of the keys.
LEMMA RangeShard ==
    ASSUME NEW c, c.locations \in Nat, NEW keys
    PROVE  NumRangeShard(c, keys) = Ranged(c, Joined("range", keys))
<1> DEFINE S == {i \in 0 .. c.locations - 1 : Contains(NumKeyRange(c, i), Joined("range", keys).v)}
           H(v, in) == CASE c.locations = 0 -> Err
                         [] c.locations > 0 /\ v.out # "ok" -> v
                         [] OTHER -> IF in = {} THEN Err ELSE Ok(CHOOSE i \in in : \A k \in in : i <= k)
           G(v, in) == IF c.locations = 0 THEN Err
                       ELSE IF v.out # "ok" THEN v
                       ELSE IF in = {} THEN Err ELSE Ok(CHOOSE i \in in : \A k \in in : i <= k)
<1>1. NumRangeShard(c, keys) = H(Joined("range", keys), S)
  BY Zenon DEF NumRangeShard
<1>2. Ranged(c, Joined("range", keys)) = G(Joined("range", keys), S)
  BY Zenon DEF Ranged
<1>3. \A v, in : H(v, in) = G(v, in)
  <2> SUFFICES ASSUME NEW v, NEW in PROVE H(v, in) = G(v, in)
    OBVIOUS
  <2>1. c.locations = 0 \/ (c.locations > 0 /\ c.locations # 0)
    OBVIOUS
  <2> QED
    BY <2>1
<1> HIDE DEF H, G, S
<1> QED
  BY <1>1, <1>2, <1>3, Zenon

\* Keys with the same value are in the same table.
LEMMA SameValue ==
    ASSUME NEW c \in ShardConfig, c.type \in {"mod", "range"}, NEW keys, NEW others,
           Joined(c.type, keys) = Joined(c.type, others)
    PROVE  FindForKey(c, keys) = FindForKey(c, others)
<1>1. CASE c.type = "mod"
  <2>1. FindForKey(c, keys) = ModShard(c, keys) /\ FindForKey(c, others) = ModShard(c, others)
    BY <1>1 DEF FindForKey
  <2>2. Joined("mod", keys) = Joined("mod", others)
    BY <1>1
  <2> DEFINE G(m) == IF c.modNum = 0 \/ m.out = "panic" THEN Panic ELSE [m EXCEPT !.v = @ % c.modNum]
  <2>3. ModShard(c, keys) = G(Joined("mod", keys)) /\ ModShard(c, others) = G(Joined("mod", others))
    BY Zenon DEF ModShard
  <2> HIDE DEF G
  <2> QED
    BY <2>1, <2>2, <2>3, Zenon
<1>2. CASE c.type = "range"
  <2>1. FindForKey(c, keys) = NumRangeShard(c, keys) /\ FindForKey(c, others) = NumRangeShard(c, others)
    BY <1>2 DEF FindForKey
  <2>2. Joined("range", keys) = Joined("range", others)
    BY <1>2
  <2>3. c.locations \in Nat
    BY DEF ShardConfig
  <2> QED
    BY <2>1, <2>2, <2>3, RangeShard, Zenon
<1> QED
  BY <1>1, <1>2

\* Products keep the order.
LEMMA TimesOrder ==
    ASSUME NEW a \in Nat, NEW b \in Nat, NEW l \in Nat, a <= b
    PROVE  a * l \in Nat /\ b * l \in Nat /\ a * l <= b * l
<1>1. PICK d \in Nat : b = a + d
  BY b - a \in Nat
<1>2. b * l = a * l + d * l
  BY <1>1
<1>3. a * l \in Nat /\ d * l \in Nat
  OBVIOUS
<1> QED
  BY <1>2, <1>3

\* The ranges of a range rule end at the largest integer or below.
Fits(c) == c.limit > 0 /\ c.locations * c.limit <= MaxNumKey

\* Range i has the numbers from i times the limit on, and no end where it
\* would end with the largest (numkey.go:25-42).
LEMMA RangeHas ==
    ASSUME NEW c \in ShardConfig, Fits(c), NEW i \in 0 .. c.locations - 1, NEW n \in Int
    PROVE  Contains(NumKeyRange(c, i), n)
               <=> i * c.limit <= n /\ (n < (i + 1) * c.limit \/ (i + 1) * c.limit = MaxNumKey)
<1>1. PICK l \in Nat, p \in Nat : l = c.limit /\ p = c.locations /\ l > 0 /\ p * l <= MaxNumKey
  BY DEF ShardConfig, Fits
<1>2. i \in Nat /\ i + 1 \in Nat /\ i <= p /\ i + 1 <= p
  BY <1>1
<1>3. i * l \in Nat /\ i * l <= p * l /\ p * l \in Nat
  BY <1>1, <1>2, TimesOrder
<1>4. (i + 1) * l \in Nat /\ (i + 1) * l <= p * l
  <2>1. PICK j \in Nat : j = i + 1 /\ j <= p
    BY <1>2
  <2>2. j * l \in Nat /\ j * l <= p * l
    BY <1>1, <2>1, TimesOrder
  <2> QED
    BY <2>1, <2>2
<1>5. PICK a \in Nat, b \in Nat : a = i * l /\ b = (i + 1) * l /\ a <= MaxNumKey /\ b <= MaxNumKey
  BY <1>1, <1>3, <1>4, Width
<1>6. a \in -MaxNumKey - 1 .. MaxNumKey /\ b \in -MaxNumKey - 1 .. MaxNumKey
  BY <1>5, Width
<1>7. Signed(a) = a /\ Signed(b) = b
  BY <1>6, SignedIs
<1>8. NumKeyRange(c, i).start = a /\ NumKeyRange(c, i).end = b
  BY <1>1, <1>5, <1>7 DEF NumKeyRange
<1> QED
  BY <1>1, <1>5, <1>8 DEF Contains

\* So a number is in the range of its quotient and in no other, and the
\* largest number in the last one if that has no end.
LEMMA RangeOf ==
    ASSUME NEW c \in ShardConfig, Fits(c), NEW n \in -MaxNumKey - 1 .. MaxNumKey
    PROVE  NumRangeShard(c, <<Number("int64", n)>>) =
               IF n \in 0 .. c.locations * c.limit - 1 THEN Ok(n \div c.limit)
               ELSE IF n = MaxNumKey /\ c.locations * c.limit = MaxNumKey THEN Ok(c.locations - 1)
               ELSE Err
<1> DEFINE keys == <<Number("int64", n)>>
           in == {i \in 0 .. c.locations - 1 : Contains(NumKeyRange(c, i), n)}
<1>1. PICK l \in Nat, p \in Nat : l = c.limit /\ p = c.locations /\ l > 0 /\ p * l <= MaxNumKey
  BY DEF ShardConfig, Fits
<1>2. n \in Int
  BY Width
<1>3. Joined("range", keys) = Ok(n)
  <2>1. Len(keys) = 1 /\ keys[1] = Number("int64", n)
    OBVIOUS
  <2>2. Number("int64", n).type = "int64" /\ Number("int64", n).num = n
    BY DEF Number
  <2>3. Signed(n) = n
    BY SignedIs
  <2>4. NumValue(Number("int64", n)) = Ok(n)
    BY <2>2, <2>3 DEF NumValue, Integer
  <2>5. KeyValue("range", Number("int64", n)) = Ok(n)
    BY <2>4 DEF KeyValue
  <2> QED
    BY <2>1, <2>5, Zenon DEF Joined
<1>4. Ok(n).out = "ok" /\ Ok(n).v = n
  BY DEF Ok
<1>5. \A i \in 0 .. p - 1 : i \in in <=> i * l <= n /\ (n < (i + 1) * l \/ (i + 1) * l = MaxNumKey)
  BY <1>1, <1>2, RangeHas
<1>6. in \subseteq 0 .. p - 1
  BY <1>1
<1> HIDE DEF in, keys
<1>7. NumRangeShard(c, keys) = IF in = {} THEN Err ELSE Ok(CHOOSE i \in in : \A k \in in : i <= k)
  <2>1. NumRangeShard(c, keys) = Ranged(c, Ok(n))
    BY <1>1, <1>3, RangeShard
  <2>2. {i \in 0 .. c.locations - 1 : Contains(NumKeyRange(c, i), Ok(n).v)} = in
    BY <1>4, Zenon DEF in
  <2>3. c.locations = 0 => in = {}
    BY <1>1, <1>6
  <2> QED
    BY <1>4, <2>1, <2>2, <2>3, Zenon DEF Ranged
<1>8. CASE n \in 0 .. p * l - 1
  <2>1. PICK q \in Nat, r \in 0 .. l - 1 : n = l * q + r /\ n \div l = q
    <3>1. n \in Nat /\ l \in Nat \ {0}
      BY <1>1, <1>8
    <3>2. n % l \in 0 .. l - 1 /\ n = l * (n \div l) + (n % l) /\ n \div l \in Nat
      BY <3>1
    <3> QED
      BY <3>2
  <2>2. q * l <= n /\ n < (q + 1) * l
    <3>1. PICK a \in Nat : a = l * q /\ a = q * l
      BY l * q \in Nat, l * q = q * l
    <3>2. (q + 1) * l = a + l
      BY <3>1
    <3> QED
      BY <2>1, <3>1, <3>2
  <2>3. ASSUME NEW i \in Nat, i < q PROVE (i + 1) * l <= q * l
    <3>1. PICK j \in Nat : j = i + 1 /\ j <= q
      BY <2>3
    <3>2. j * l <= q * l
      BY <3>1, TimesOrder
    <3> QED
      BY <3>1, <3>2
  <2>4. ASSUME NEW i \in Nat, i > q PROVE (q + 1) * l <= i * l
    <3>1. PICK j \in Nat : j = q + 1 /\ j <= i
      BY <2>4
    <3>2. j * l <= i * l
      BY <3>1, TimesOrder
    <3> QED
      BY <3>1, <3>2
  <2>5. q < p
    <3>1. CASE q = p
      BY <1>8, <2>2, <3>1
    <3>2. CASE q > p
      <4>1. p * l <= q * l
        BY <3>2, TimesOrder
      <4> QED
        BY <1>8, <2>2, <4>1
    <3> QED
      BY <3>1, <3>2
  <2>6. q \in in
    BY <1>5, <2>2, <2>5
  <2>7. ASSUME NEW i \in in PROVE i = q
    <3>1. /\ i \in 0 .. p - 1 /\ i \in Nat /\ i * l <= n
          /\ n < (i + 1) * l \/ (i + 1) * l = MaxNumKey
      BY <1>5, <1>6
    <3>2. i * l \in Int /\ (i + 1) * l \in Int /\ q * l \in Int /\ (q + 1) * l \in Int
      BY <3>1
    <3>3. ~(i < q)
      <4>1. i < q => (i + 1) * l <= q * l
        BY <2>3, <3>1
      <4>2. n < MaxNumKey /\ MaxNumKey \in Nat
        BY <1>1, <1>8, Width
      <4> QED
        BY <2>2, <3>1, <3>2, <4>1, <4>2
    <3>4. ~(i > q)
      <4>1. i > q => (q + 1) * l <= i * l
        BY <2>4, <3>1
      <4> QED
        BY <2>2, <3>1, <3>2, <4>1
    <3> QED
      BY <3>1, <3>3, <3>4
  <2>8. in = {q} /\ in # {}
    BY <2>6, <2>7
  <2>9. (CHOOSE i \in in : \A k \in in : i <= k) = q
    BY <2>8
  <2>10. n \in 0 .. c.locations * c.limit - 1 /\ n \div c.limit = q
    BY <1>1, <1>8, <2>1
  <2> QED
    BY <1>7, <2>8, <2>9, <2>10 DEF keys
<1>9. CASE n \notin 0 .. p * l - 1 /\ ~(n = MaxNumKey /\ p * l = MaxNumKey)
  <2>1. ASSUME NEW i \in in PROVE FALSE
    <3>1. /\ i \in 0 .. p - 1 /\ i \in Nat /\ i * l <= n
          /\ n < (i + 1) * l \/ (i + 1) * l = MaxNumKey
      BY <1>5, <1>6
    <3>2. PICK j \in Nat : j = i + 1 /\ j <= p
      BY <3>1
    <3>3. j * l <= p * l /\ j * l \in Nat /\ p * l \in Nat
      BY <3>2, TimesOrder
    <3>4. i * l \in Nat /\ MaxNumKey \in Nat
      BY <3>1, Width
    <3>5. CASE n < j * l
      BY <1>2, <1>9, <3>1, <3>3, <3>4, <3>5
    <3>6. CASE j * l = MaxNumKey
      BY <1>1, <1>2, <1>9, <3>1, <3>3, <3>4, <3>6
    <3> QED
      BY <3>1, <3>2, <3>5, <3>6
  <2>2. in = {}
    BY <2>1
  <2>3. /\ n \notin 0 .. c.locations * c.limit - 1
        /\ ~(n = MaxNumKey /\ c.locations * c.limit = MaxNumKey)
    BY <1>1, <1>9
  <2> QED
    BY <1>7, <2>2, <2>3 DEF keys
<1>10. CASE n = MaxNumKey /\ p * l = MaxNumKey
  <2>1. MaxNumKey \in Nat /\ MaxNumKey > 0
    BY Width
  <2>2. PICK q \in Nat : p = q + 1
    <3>1. p # 0
      BY <1>10, <2>1
    <3> QED
      BY <3>1, p - 1 \in Nat
  <2>3. (q + 1) * l = MaxNumKey /\ q * l \in Nat /\ q * l + l = MaxNumKey
    BY <1>10, <2>2
  <2>4. q \in in
    BY <1>5, <1>10, <2>1, <2>2, <2>3
  <2>5. ASSUME NEW i \in in PROVE i = q
    <3>1. /\ i \in 0 .. p - 1 /\ i \in Nat
          /\ n < (i + 1) * l \/ (i + 1) * l = MaxNumKey
      BY <1>5, <1>6
    <3>2. CASE i < q
      <4>1. PICK j \in Nat : j = i + 1 /\ j <= q
        BY <3>1, <3>2
      <4>2. j * l <= q * l /\ j * l \in Nat
        BY <4>1, TimesOrder
      <4> QED
        BY <1>1, <1>10, <2>1, <2>3, <3>1, <4>1, <4>2
    <3> QED
      BY <2>2, <3>1, <3>2
  <2>6. in = {q} /\ in # {}
    BY <2>4, <2>5
  <2>7. (CHOOSE i \in in : \A k \in in : i <= k) = q
    BY <2>6
  <2>8. /\ n \notin 0 .. c.locations * c.limit - 1 /\ c.locations - 1 = q
        /\ n = MaxNumKey /\ c.locations * c.limit = MaxNumKey
    BY <1>1, <1>10, <2>1, <2>2
  <2> QED
    BY <1>7, <2>6, <2>7, <2>8 DEF keys
<1> QED
  BY <1>8, <1>9, <1>10

-----------------------------------------------------------------------------
(* Sharding: dates *)

\* p goes on by digit k of t, and what a digit is.
Adds(p, t, k) == p[k] = 10 * p[k - 1] + t[k]
Digit(v) == v \in Nat /\ v <= 9

\* The number a row of up to eight digits shows: p has the values of its
\* beginnings.
LEMMA DecimalIs ==
    ASSUME NEW t \in Seq(Int), Len(t) \in 1 .. 8, NEW p \in [1 .. 8 -> Nat], p[1] = t[1],
           \A k \in 2 .. Len(t) : Adds(p, t, k)
    PROVE  Decimal(t) = p[Len(t)]
<1> DEFINE F(m) == [k \in 1 .. Len(t) |-> IF k = 1 THEN t[1] ELSE 10 * m[k - 1] + t[k]]
           g == [k \in 1 .. Len(t) |-> p[k]]
           mm == CHOOSE m : m = F(m)
<1>1. PICK n \in 1 .. 8 : n = Len(t)
  OBVIOUS
<1>2. g = F(g)
  <2>1. ASSUME NEW k \in 1 .. n PROVE g[k] = IF k = 1 THEN t[1] ELSE 10 * g[k - 1] + t[k]
    <3>1. CASE k = 1
      BY <1>1, <3>1
    <3>2. CASE k # 1
      <4>1. k \in 2 .. n /\ k - 1 \in 1 .. n
        BY <3>2
      <4>2. g[k] = p[k] /\ g[k - 1] = p[k - 1]
        BY <1>1, <4>1
      <4> QED
        BY <1>1, <3>2, <4>1, <4>2 DEF Adds
    <3> QED
      BY <3>1, <3>2
  <2> QED
    BY <1>1, <2>1
<1>3. mm = F(mm)
  <2> HIDE DEF F, g
  <2> QED
    BY <1>2
<1>4. Decimal(t) = mm[Len(t)]
  BY Zenon DEF Decimal
<1> HIDE DEF mm
<1>5. mm[1] = p[1]
  BY <1>1, <1>3
<1>6. ASSUME NEW k \in 2 .. n, mm[k - 1] = p[k - 1] PROVE mm[k] = p[k]
  <2>1. F(mm)[k] = 10 * mm[k - 1] + t[k]
    <3>1. k \in 1 .. Len(t) /\ k # 1
      BY <1>1
    <3> QED
      BY <3>1, Zenon
  <2>2. mm[k] = F(mm)[k]
    BY <1>3, Zenon
  <2> HIDE DEF F
  <2>3. mm[k] = 10 * p[k - 1] + t[k]
    BY <1>6, <2>1, <2>2
  <2> QED
    BY <1>1, <2>3 DEF Adds
<1> HIDE DEF F
<1>7. n >= 2 => mm[2] = p[2]
  BY <1>5, <1>6
<1>8. n >= 3 => mm[3] = p[3]
  BY <1>6, <1>7
<1>9. n >= 4 => mm[4] = p[4]
  BY <1>6, <1>8
<1>10. n >= 5 => mm[5] = p[5]
  BY <1>6, <1>9
<1>11. n >= 6 => mm[6] = p[6]
  BY <1>6, <1>10
<1>12. n >= 7 => mm[7] = p[7]
  BY <1>6, <1>11
<1>13. n >= 8 => mm[8] = p[8]
  BY <1>6, <1>12
<1>14. n = 1 \/ n = 2 \/ n = 3 \/ n = 4 \/ n = 5 \/ n = 6 \/ n = 7 \/ n = 8
  OBVIOUS
<1>15. mm[n] = p[n]
  <2>1. CASE n = 1 \/ n = 2 \/ n = 3 \/ n = 4
    BY <1>5, <1>7, <1>8, <1>9, <2>1
  <2>2. CASE n = 5 \/ n = 6 \/ n = 7 \/ n = 8
    BY <1>10, <1>11, <1>12, <1>13, <2>2
  <2> QED
    BY <1>14, <2>1, <2>2
<1> QED
  BY <1>1, <1>4, <1>15

\* Digits, as Atoi asks for them.
LEMMA DigitRange ==
    ASSUME NEW v, Digit(v)
    PROVE  v \in 0 .. 9
  BY DEF Digit

\* strconv.Atoi of up to eight digits.
LEMMA AtoiIs ==
    ASSUME NEW t \in Seq(Int), NEW n \in 1 .. 8, Len(t) = n, \A k \in 1 .. n : Digit(t[k]),
           NEW p \in [1 .. 8 -> Nat], p[1] = t[1], \A k \in 2 .. n : Adds(p, t, k)
    PROVE  Atoi(t) = Ok(p[n])
<1>1. t # << >> /\ Digit(t[1])
  OBVIOUS
<1>2. ASSUME NEW k \in 1 .. Len(t) PROVE t[k] \in 0 .. 9
  <2>1. Digit(t[k])
    OBVIOUS
  <2> QED
    BY <2>1, DigitRange
<1>3. t[1] # Dash
  BY <1>1 DEF Dash, Digit
<1>4. Decimal(t) = p[n]
  <2>1. Len(t) \in 1 .. 8 /\ \A k \in 2 .. Len(t) : Adds(p, t, k)
    OBVIOUS
  <2> QED
    BY <2>1, DecimalIs
<1> QED
  BY <1>1, <1>2, <1>3, <1>4 DEF Atoi

\* Numbers of four digits and of two, and their digits.
Four(y) == y \in Nat /\ y <= 9999
Two(m) == m \in Nat /\ m <= 99

Y1(y) == y \div 1000
Y2(y) == (y \div 100) % 10
Y3(y) == (y \div 10) % 10
Y4(y) == y % 10
T1(m) == m \div 10
T2(m) == m % 10

Month(y, m) == 100 * y + m
Day(y, m, d) == 100 * Month(y, m) + d

\* A row of digits that shows a year, a month or a day.
Shows4(t, y) ==
    t \in Seq(Int) /\ Len(t) = 4 /\ t[1] = Y1(y) /\ t[2] = Y2(y) /\ t[3] = Y3(y) /\ t[4] = Y4(y)
Shows6(t, y, m) ==
    /\ t \in Seq(Int) /\ Len(t) = 6 /\ t[1] = Y1(y) /\ t[2] = Y2(y) /\ t[3] = Y3(y) /\ t[4] = Y4(y)
    /\ t[5] = T1(m) /\ t[6] = T2(m)
Shows8(t, y, m, d) ==
    /\ t \in Seq(Int) /\ Len(t) = 8 /\ t[1] = Y1(y) /\ t[2] = Y2(y) /\ t[3] = Y3(y) /\ t[4] = Y4(y)
    /\ t[5] = T1(m) /\ t[6] = T2(m) /\ t[7] = T1(d) /\ t[8] = T2(d)

\* A year is made of its digits ...
LEMMA YearDigits ==
    ASSUME NEW y, Four(y)
    PROVE  /\ Digit(Y1(y)) /\ Digit(Y2(y)) /\ Digit(Y3(y)) /\ Digit(Y4(y))
           /\ y = 1000 * Y1(y) + 100 * Y2(y) + 10 * Y3(y) + Y4(y)
<1>1. PICK n \in Nat : n = y /\ n <= 9999
  BY DEF Four
<1>2. n \div 1000 \in Nat /\ n \div 1000 <= 9
  BY <1>1
<1>3. (n \div 100) % 10 \in Nat /\ (n \div 100) % 10 <= 9
  OBVIOUS
<1>4. (n \div 10) % 10 \in Nat /\ (n \div 10) % 10 <= 9
  OBVIOUS
<1>5. n % 10 \in Nat /\ n % 10 <= 9
  OBVIOUS
<1>6. n = 1000 * (n \div 1000) + 100 * ((n \div 100) % 10) + 10 * ((n \div 10) % 10) + (n % 10)
  BY <1>1
<1> QED
  BY <1>1, <1>2, <1>3, <1>4, <1>5, <1>6 DEF Y1, Y2, Y3, Y4, Digit

\* ... and so are a month and a day.
LEMMA TwoDigits ==
    ASSUME NEW m, Two(m)
    PROVE  Digit(T1(m)) /\ Digit(T2(m)) /\ m = 10 * T1(m) + T2(m)
<1>1. PICK n \in Nat : n = m /\ n <= 99
  BY DEF Two
<1>2. n \div 10 \in Nat /\ n \div 10 <= 9 /\ n % 10 \in Nat /\ n % 10 <= 9 /\ n = 10 * (n \div 10) + (n % 10)
  BY <1>1
<1> QED
  BY <1>1, <1>2 DEF T1, T2, Digit

\* What Atoi makes of them.
LEMMA AtoiYear ==
    ASSUME NEW t, NEW y, Four(y), Shows4(t, y)
    PROVE  Atoi(t) = Ok(y)
<1>1. PICK a, b, c, e : /\ Digit(a) /\ Digit(b) /\ Digit(c) /\ Digit(e)
                        /\ a = Y1(y) /\ b = Y2(y) /\ c = Y3(y) /\ e = Y4(y)
  BY YearDigits
<1>2. /\ y \in Nat /\ y = 1000 * a + 100 * b + 10 * c + e
  <2>1. y \in Nat /\ y = 1000 * a + 100 * b + 10 * c + e
    BY <1>1, YearDigits DEF Four
  <2> QED
    BY <2>1
<1>3. t \in Seq(Int) /\ Len(t) = 4
  BY DEF Shows4
<1>4. t[1] = a /\ t[2] = b /\ t[3] = c /\ t[4] = e
  BY <1>1 DEF Shows4
<1>5. a \in Nat /\ b \in Nat /\ c \in Nat /\ e \in Nat
  BY <1>1 DEF Digit
<1> DEFINE p == [k \in 1 .. 8 |->
                    IF k = 1 THEN a
                    ELSE IF k = 2 THEN 10 * a + b
                    ELSE IF k = 3 THEN 100 * a + 10 * b + c
                    ELSE y]
<1>6. p \in [1 .. 8 -> Nat]
  BY <1>2, <1>5
<1>7. p[1] = t[1] /\ p[4] = y
  BY <1>4
<1>8. Adds(p, t, 2)
  <2>1. p[2] = 10 * a + b /\ p[2 - 1] = a
    OBVIOUS
  <2> HIDE DEF p
  <2> QED
    BY <1>2, <1>4, <1>5, <2>1 DEF Adds
<1>9. Adds(p, t, 3)
  <2>1. p[3] = 100 * a + 10 * b + c /\ p[3 - 1] = 10 * a + b
    OBVIOUS
  <2> HIDE DEF p
  <2> QED
    BY <1>2, <1>4, <1>5, <2>1 DEF Adds
<1>10. Adds(p, t, 4)
  <2>1. p[4] = y /\ p[4 - 1] = 100 * a + 10 * b + c
    OBVIOUS
  <2> HIDE DEF p
  <2> QED
    BY <1>2, <1>4, <1>5, <2>1 DEF Adds
<1> HIDE DEF p
<1>11. \A k \in 1 .. 4 : k = 1 \/ k = 2 \/ k = 3 \/ k = 4
  OBVIOUS
<1>12. \A k \in 1 .. 4 : Digit(t[k])
  BY <1>1, <1>4, <1>11
<1>13. \A k \in 2 .. 4 : k = 2 \/ k = 3 \/ k = 4
  OBVIOUS
<1>14. \A k \in 2 .. 4 : Adds(p, t, k)
  BY <1>8, <1>9, <1>10, <1>13
<1>15. 4 \in 1 .. 8
  OBVIOUS
<1>16. Atoi(t) = Ok(p[4])
  <2>1. p[1] = t[1]
    BY <1>7
  <2> QED
    BY <1>3, <1>6, <1>12, <1>14, <1>15, <2>1, AtoiIs, Zenon
<1> QED
  BY <1>7, <1>16

\* The same for a month,
LEMMA AtoiMonth ==
    ASSUME NEW t, NEW y, Four(y), NEW m, Two(m), Shows6(t, y, m)
    PROVE  Atoi(t) = Ok(Month(y, m))
<1>1. PICK a, b, c, e : /\ Digit(a) /\ Digit(b) /\ Digit(c) /\ Digit(e)
                        /\ a = Y1(y) /\ b = Y2(y) /\ c = Y3(y) /\ e = Y4(y)
  BY YearDigits
<1>2. PICK f, g : Digit(f) /\ Digit(g) /\ f = T1(m) /\ g = T2(m)
  BY TwoDigits
<1>3. /\ y \in Nat /\ y = 1000 * a + 100 * b + 10 * c + e
      /\ m \in Nat /\ m = 10 * f + g
  <2>1. y \in Nat /\ y = 1000 * a + 100 * b + 10 * c + e
    BY <1>1, YearDigits DEF Four
  <2>2. m \in Nat /\ m = 10 * f + g
    BY <1>2, TwoDigits DEF Two
  <2> QED
    BY <2>1, <2>2
<1>4. t \in Seq(Int) /\ Len(t) = 6
  BY DEF Shows6
<1>5. t[1] = a /\ t[2] = b /\ t[3] = c /\ t[4] = e /\ t[5] = f /\ t[6] = g
  BY <1>1, <1>2 DEF Shows6
<1>6. a \in Nat /\ b \in Nat /\ c \in Nat /\ e \in Nat /\ f \in Nat /\ g \in Nat
  BY <1>1, <1>2 DEF Digit
<1> DEFINE p == [k \in 1 .. 8 |->
                    IF k = 1 THEN a
                    ELSE IF k = 2 THEN 10 * a + b
                    ELSE IF k = 3 THEN 100 * a + 10 * b + c
                    ELSE IF k = 4 THEN y
                    ELSE IF k = 5 THEN 10 * y + f
                    ELSE 100 * y + m]
<1>7. p \in [1 .. 8 -> Nat]
  BY <1>3, <1>6
<1>8. p[1] = t[1] /\ p[6] = 100 * y + m
  BY <1>5
<1>9. Adds(p, t, 2)
  <2>1. p[2] = 10 * a + b /\ p[2 - 1] = a
    OBVIOUS
  <2> HIDE DEF p
  <2> QED
    BY <1>3, <1>5, <1>6, <2>1 DEF Adds
<1>10. Adds(p, t, 3)
  <2>1. p[3] = 100 * a + 10 * b + c /\ p[3 - 1] = 10 * a + b
    OBVIOUS
  <2> HIDE DEF p
  <2> QED
    BY <1>3, <1>5, <1>6, <2>1 DEF Adds
<1>11. Adds(p, t, 4)
  <2>1. p[4] = y /\ p[4 - 1] = 100 * a + 10 * b + c
    OBVIOUS
  <2> HIDE DEF p
  <2> QED
    BY <1>3, <1>5, <1>6, <2>1 DEF Adds
<1>12. Adds(p, t, 5)
  <2>1. p[5] = 10 * y + f /\ p[5 - 1] = y
    OBVIOUS
  <2> HIDE DEF p
  <2> QED
    BY <1>3, <1>5, <1>6, <2>1 DEF Adds
<1>13. Adds(p, t, 6)
  <2>1. p[6] = 100 * y + m /\ p[6 - 1] = 10 * y + f
    OBVIOUS
  <2> HIDE DEF p
  <2> QED
    BY <1>3, <1>5, <1>6, <2>1 DEF Adds
<1> HIDE DEF p
<1>14. \A k \in 1 .. 6 : k = 1 \/ k = 2 \/ k = 3 \/ k = 4 \/ k = 5 \/ k = 6
  OBVIOUS
<1>15. \A k \in 1 .. 6 : Digit(t[k])
  BY <1>1, <1>2, <1>5, <1>14
<1>16. \A k \in 2 .. 6 : k = 2 \/ k = 3 \/ k = 4 \/ k = 5 \/ k = 6
  OBVIOUS
<1>17. \A k \in 2 .. 6 : Adds(p, t, k)
  BY <1>9, <1>10, <1>11, <1>12, <1>13, <1>16
<1>18. 6 \in 1 .. 8
  OBVIOUS
<1>19. Atoi(t) = Ok(p[6])
  <2>1. p[1] = t[1]
    BY <1>8
  <2> QED
    BY <1>4, <1>7, <1>15, <1>17, <1>18, <2>1, AtoiIs, Zenon
<1> QED
  BY <1>8, <1>19 DEF Month

\* and for a day.
LEMMA AtoiDay ==
    ASSUME NEW t, NEW y, Four(y), NEW m, Two(m), NEW d, Two(d), Shows8(t, y, m, d)
    PROVE  Atoi(t) = Ok(Day(y, m, d))
<1>1. PICK a, b, c, e : /\ Digit(a) /\ Digit(b) /\ Digit(c) /\ Digit(e)
                        /\ a = Y1(y) /\ b = Y2(y) /\ c = Y3(y) /\ e = Y4(y)
  BY YearDigits
<1>2. PICK f, g : Digit(f) /\ Digit(g) /\ f = T1(m) /\ g = T2(m)
  BY TwoDigits
<1>3. PICK h, i : Digit(h) /\ Digit(i) /\ h = T1(d) /\ i = T2(d)
  BY TwoDigits
<1>4. /\ y \in Nat /\ y = 1000 * a + 100 * b + 10 * c + e
      /\ m \in Nat /\ m = 10 * f + g
      /\ d \in Nat /\ d = 10 * h + i
  <2>1. y \in Nat /\ y = 1000 * a + 100 * b + 10 * c + e
    BY <1>1, YearDigits DEF Four
  <2>2. m \in Nat /\ m = 10 * f + g
    BY <1>2, TwoDigits DEF Two
  <2>3. d \in Nat /\ d = 10 * h + i
    BY <1>3, TwoDigits DEF Two
  <2> QED
    BY <2>1, <2>2, <2>3
<1>5. t \in Seq(Int) /\ Len(t) = 8
  BY DEF Shows8
<1>6. t[1] = a /\ t[2] = b /\ t[3] = c /\ t[4] = e /\ t[5] = f /\ t[6] = g /\ t[7] = h /\ t[8] = i
  BY <1>1, <1>2, <1>3 DEF Shows8
<1>7. a \in Nat /\ b \in Nat /\ c \in Nat /\ e \in Nat /\ f \in Nat /\ g \in Nat /\ h \in Nat /\ i \in Nat
  BY <1>1, <1>2, <1>3 DEF Digit
<1> DEFINE p == [k \in 1 .. 8 |->
                    IF k = 1 THEN a
                    ELSE IF k = 2 THEN 10 * a + b
                    ELSE IF k = 3 THEN 100 * a + 10 * b + c
                    ELSE IF k = 4 THEN y
                    ELSE IF k = 5 THEN 10 * y + f
                    ELSE IF k = 6 THEN 100 * y + m
                    ELSE IF k = 7 THEN 10 * (100 * y + m) + h
                    ELSE 100 * (100 * y + m) + d]
<1>8. p \in [1 .. 8 -> Nat]
  BY <1>4, <1>7
<1>9. p[1] = t[1] /\ p[8] = 100 * (100 * y + m) + d
  BY <1>6
<1>10. Adds(p, t, 2)
  <2>1. p[2] = 10 * a + b /\ p[2 - 1] = a
    OBVIOUS
  <2> HIDE DEF p
  <2> QED
    BY <1>4, <1>6, <1>7, <2>1 DEF Adds
<1>11. Adds(p, t, 3)
  <2>1. p[3] = 100 * a + 10 * b + c /\ p[3 - 1] = 10 * a + b
    OBVIOUS
  <2> HIDE DEF p
  <2> QED
    BY <1>4, <1>6, <1>7, <2>1 DEF Adds
<1>12. Adds(p, t, 4)
  <2>1. p[4] = y /\ p[4 - 1] = 100 * a + 10 * b + c
    OBVIOUS
  <2> HIDE DEF p
  <2> QED
    BY <1>4, <1>6, <1>7, <2>1 DEF Adds
<1>13. Adds(p, t, 5)
  <2>1. p[5] = 10 * y + f /\ p[5 - 1] = y
    OBVIOUS
  <2> HIDE DEF p
  <2> QED
    BY <1>4, <1>6, <1>7, <2>1 DEF Adds
<1>14. Adds(p, t, 6)
  <2>1. p[6] = 100 * y + m /\ p[6 - 1] = 10 * y + f
    OBVIOUS
  <2> HIDE DEF p
  <2> QED
    BY <1>4, <1>6, <1>7, <2>1 DEF Adds
<1>15. Adds(p, t, 7)
  <2>1. p[7] = 10 * (100 * y + m) + h /\ p[7 - 1] = 100 * y + m
    OBVIOUS
  <2> HIDE DEF p
  <2> QED
    BY <1>4, <1>6, <1>7, <2>1 DEF Adds
<1>16. Adds(p, t, 8)
  <2>1. p[8] = 100 * (100 * y + m) + d /\ p[8 - 1] = 10 * (100 * y + m) + h
    OBVIOUS
  <2> HIDE DEF p
  <2> QED
    BY <1>4, <1>6, <1>7, <2>1 DEF Adds
<1> HIDE DEF p
<1>17. \A k \in 1 .. 8 : k = 1 \/ k = 2 \/ k = 3 \/ k = 4 \/ k = 5 \/ k = 6 \/ k = 7 \/ k = 8
  OBVIOUS
<1>18. \A k \in 1 .. 8 : Digit(t[k])
  BY <1>1, <1>2, <1>3, <1>6, <1>17
<1>19. \A k \in 2 .. 8 : k = 2 \/ k = 3 \/ k = 4 \/ k = 5 \/ k = 6 \/ k = 7 \/ k = 8
  OBVIOUS
<1>20. \A k \in 2 .. 8 : Adds(p, t, k)
  BY <1>10, <1>11, <1>12, <1>13, <1>14, <1>15, <1>16, <1>19
<1>21. 8 \in 1 .. 8
  OBVIOUS
<1>22. Atoi(t) = Ok(p[8])
  <2>1. p[1] = t[1]
    BY <1>9
  <2> QED
    BY <1>5, <1>8, <1>18, <1>20, <1>21, <2>1, AtoiIs, Zenon
<1> QED
  BY <1>9, <1>22 DEF Month, Day

\* A sequence put together of two.
LEMMA Concat ==
    ASSUME NEW s \in Seq(Int), NEW t \in Seq(Int)
    PROVE  /\ s \o t \in Seq(Int) /\ Len(s \o t) = Len(s) + Len(t)
           /\ \A i \in 1 .. Len(s) : (s \o t)[i] = s[i]
           /\ \A i \in 1 .. Len(t) : (s \o t)[Len(s) + i] = t[i]
<1> DEFINE u == s \o t
<1>1. /\ u \in Seq(Int) /\ Len(u) = Len(s) + Len(t)
      /\ \A i \in 1 .. Len(s) + Len(t) : u[i] = IF i <= Len(s) THEN s[i] ELSE t[i - Len(s)]
  BY ConcatProperties
<1> HIDE DEF u
<1>2. ASSUME NEW i \in 1 .. Len(s) PROVE u[i] = s[i]
  <2>1. i \in 1 .. Len(s) + Len(t) /\ i <= Len(s)
    OBVIOUS
  <2> QED
    BY <1>1, <2>1
<1>3. ASSUME NEW i \in 1 .. Len(t) PROVE u[Len(s) + i] = t[i]
  <2>1. Len(s) + i \in 1 .. Len(s) + Len(t) /\ ~(Len(s) + i <= Len(s)) /\ (Len(s) + i) - Len(s) = i
    OBVIOUS
  <2> QED
    BY <1>1, <2>1
<1> QED
  BY <1>1, <1>2, <1>3 DEF u

\* A text that begins with a date.
Dated(x, y, m, d) ==
    /\ x \in Seq(Int) /\ Len(x) >= 10 /\ x[1] = Y1(y) /\ x[2] = Y2(y) /\ x[3] = Y3(y) /\ x[4] = Y4(y)
    /\ x[6] = T1(m) /\ x[7] = T2(m) /\ x[9] = T1(d) /\ x[10] = T2(d)

\* A formatted date does ...
LEMMA FormatDated ==
    ASSUME NEW r, Four(r.y), Two(r.m), Two(r.d)
    PROVE  Dated(Format(r), r.y, r.m, r.d) /\ Len(Format(r)) = 10
<1>1. PICK a \in Int, b \in Int, c \in Int, e \in Int : a = Y1(r.y) /\ b = Y2(r.y) /\ c = Y3(r.y) /\ e = Y4(r.y)
  BY YearDigits DEF Digit
<1>2. PICK f \in Int, g \in Int, h \in Int, i \in Int : f = T1(r.m) /\ g = T2(r.m) /\ h = T1(r.d) /\ i = T2(r.d)
  BY TwoDigits DEF Digit
<1> DEFINE s == <<a, b, c, e>>
           t == <<Dash, f, g, Dash, h, i>>
<1>3. s \in Seq(Int) /\ Len(s) = 4 /\ s[1] = a /\ s[2] = b /\ s[3] = c /\ s[4] = e
  OBVIOUS
<1>4. t \in Seq(Int) /\ Len(t) = 6 /\ t[2] = f /\ t[3] = g /\ t[5] = h /\ t[6] = i
  BY DEF Dash
<1>5. YearText(r.y) = s
  BY <1>1 DEF YearText, Four, Y1, Y2, Y3, Y4
<1>6. Format(r) = YearText(r.y) \o t
  BY <1>2 DEF Format, T1, T2
<1> HIDE DEF s, t
<1> DEFINE u == s \o t
<1>7. /\ u \in Seq(Int) /\ Len(u) = Len(s) + Len(t) /\ \A k \in 1 .. Len(s) : u[k] = s[k]
      /\ \A k \in 1 .. Len(t) : u[Len(s) + k] = t[k]
  BY <1>3, <1>4, Concat
<1> HIDE DEF u
<1>8. u[1] = s[1] /\ u[2] = s[2] /\ u[3] = s[3] /\ u[4] = s[4]
  BY <1>3, <1>7
<1>9. u[4 + 2] = t[2] /\ u[4 + 3] = t[3] /\ u[4 + 5] = t[5] /\ u[4 + 6] = t[6]
  BY <1>3, <1>4, <1>7
<1>10. Len(u) = 10 /\ Dated(u, r.y, r.m, r.d)
  BY <1>1, <1>2, <1>3, <1>4, <1>7, <1>8, <1>9 DEF Dated
<1> QED
  BY <1>5, <1>6, <1>10 DEF u

\* ... and it still does with a time behind it.
LEMMA TimeDated ==
    ASSUME NEW x, NEW y, NEW m, NEW d, Dated(x, y, m, d), NEW time \in Seq(Int)
    PROVE  Dated(x \o time, y, m, d)
<1>1. x \in Seq(Int) /\ Len(x) >= 10
  BY DEF Dated
<1> DEFINE u == x \o time
<1>2. u \in Seq(Int) /\ Len(u) = Len(x) + Len(time) /\ \A k \in 1 .. Len(x) : u[k] = x[k]
  BY <1>1, Concat
<1> HIDE DEF u
<1>3. Len(u) >= 10
  BY <1>1, <1>2
<1>4. ASSUME NEW k \in 1 .. 10 PROVE u[k] = x[k]
  <2>1. PICK n \in Nat : n = Len(x) /\ n >= 10
    BY <1>1
  <2>2. k \in 1 .. n
    BY <2>1
  <2> QED
    BY <1>2, <2>1, <2>2
<1>5. u[1] = x[1] /\ u[2] = x[2] /\ u[3] = x[3] /\ u[4] = x[4]
  BY <1>4
<1>6. u[6] = x[6] /\ u[7] = x[7] /\ u[9] = x[9] /\ u[10] = x[10]
  BY <1>4
<1>7. Dated(u, y, m, d)
  BY <1>2, <1>3, <1>5, <1>6 DEF Dated
<1> QED
  BY <1>7 DEF u

\* A piece of a text.
LEMMA Piece ==
    ASSUME NEW x \in Seq(Int), Len(x) >= 10, NEW i \in 1 .. 10, NEW j \in 1 .. 10, i <= j
    PROVE  /\ SubSeq(x, i, j) \in Seq(Int) /\ Len(SubSeq(x, i, j)) = j - i + 1
           /\ \A k \in 1 .. j - i + 1 : SubSeq(x, i, j)[k] = x[i + k - 1]
<1>1. \A k \in i .. j : x[k] \in Int
  OBVIOUS
<1>2. i \in Int /\ j \in Int
  OBVIOUS
<1> QED
  BY <1>1, <1>2, SubSeqProperties

\* What the rules cut out of such a text.
LEMMA CutDated ==
    ASSUME NEW x, NEW y, NEW m, NEW d, Dated(x, y, m, d), NEW rule \in {"date_year", "date_month", "date_day"}
    PROVE  /\ rule = "date_year" => Shows4(Cut(rule, x), y)
           /\ rule = "date_month" => Shows6(Cut(rule, x), y, m)
           /\ rule = "date_day" => Shows8(Cut(rule, x), y, m, d)
<1> DEFINE s == SubSeq(x, 1, 4)
           u == SubSeq(x, 6, 7)
           v == SubSeq(x, 9, 10)
<1>1. /\ x \in Seq(Int) /\ Len(x) >= 10 /\ x[1] = Y1(y) /\ x[2] = Y2(y) /\ x[3] = Y3(y) /\ x[4] = Y4(y)
      /\ x[6] = T1(m) /\ x[7] = T2(m) /\ x[9] = T1(d) /\ x[10] = T2(d)
  BY DEF Dated
<1>2. Shows4(s, y)
  <2>1. s \in Seq(Int) /\ Len(s) = 4 - 1 + 1 /\ \A k \in 1 .. 4 - 1 + 1 : s[k] = x[1 + k - 1]
    BY <1>1, Piece
  <2> HIDE DEF s
  <2>2. s[1] = x[1 + 1 - 1] /\ s[2] = x[1 + 2 - 1] /\ s[3] = x[1 + 3 - 1] /\ s[4] = x[1 + 4 - 1]
    BY <2>1
  <2> QED
    BY <1>1, <2>1, <2>2 DEF Shows4
<1>3. u \in Seq(Int) /\ Len(u) = 2 /\ u[1] = T1(m) /\ u[2] = T2(m)
  <2>1. u \in Seq(Int) /\ Len(u) = 7 - 6 + 1 /\ \A k \in 1 .. 7 - 6 + 1 : u[k] = x[6 + k - 1]
    BY <1>1, Piece
  <2> HIDE DEF u
  <2>2. u[1] = x[6 + 1 - 1] /\ u[2] = x[6 + 2 - 1]
    BY <2>1
  <2> QED
    BY <1>1, <2>1, <2>2
<1>4. v \in Seq(Int) /\ Len(v) = 2 /\ v[1] = T1(d) /\ v[2] = T2(d)
  <2>1. v \in Seq(Int) /\ Len(v) = 10 - 9 + 1 /\ \A k \in 1 .. 10 - 9 + 1 : v[k] = x[9 + k - 1]
    BY <1>1, Piece
  <2> HIDE DEF v
  <2>2. v[1] = x[9 + 1 - 1] /\ v[2] = x[9 + 2 - 1]
    BY <2>1
  <2> QED
    BY <1>1, <2>1, <2>2
<1> HIDE DEF s, u, v
<1> DEFINE w == s \o u
<1>5. s \in Seq(Int) /\ Len(s) = 4
  BY <1>2 DEF Shows4
<1>6. Shows6(w, y, m)
  <2>1. /\ w \in Seq(Int) /\ Len(w) = Len(s) + Len(u) /\ \A i \in 1 .. Len(s) : w[i] = s[i]
        /\ \A i \in 1 .. Len(u) : w[Len(s) + i] = u[i]
    BY <1>3, <1>5, Concat
  <2> HIDE DEF w
  <2>2. w[1] = s[1] /\ w[2] = s[2] /\ w[3] = s[3] /\ w[4] = s[4] /\ w[4 + 1] = u[1] /\ w[4 + 2] = u[2]
    BY <1>3, <1>5, <2>1
  <2> QED
    BY <1>2, <1>3, <1>5, <2>1, <2>2 DEF Shows4, Shows6
<1> HIDE DEF w
<1> DEFINE z == w \o v
<1>7. w \in Seq(Int) /\ Len(w) = 6
  BY <1>6 DEF Shows6
<1>8. Shows8(z, y, m, d)
  <2>1. /\ z \in Seq(Int) /\ Len(z) = Len(w) + Len(v) /\ \A i \in 1 .. Len(w) : z[i] = w[i]
        /\ \A i \in 1 .. Len(v) : z[Len(w) + i] = v[i]
    BY <1>4, <1>7, Concat
  <2> HIDE DEF z
  <2>2. /\ z[1] = w[1] /\ z[2] = w[2] /\ z[3] = w[3] /\ z[4] = w[4] /\ z[5] = w[5] /\ z[6] = w[6]
        /\ z[6 + 1] = v[1] /\ z[6 + 2] = v[2]
    BY <1>4, <1>7, <2>1
  <2> QED
    BY <1>4, <1>6, <1>7, <2>1, <2>2 DEF Shows6, Shows8
<1> HIDE DEF z
<1>9. s \o << >> = s /\ w \o << >> = w
  BY <1>5, <1>7, ConcatEmptySeq
<1>10. rule = "date_year" => Cut(rule, x) = s
  BY <1>9 DEF Cut, s
<1>11. rule = "date_month" => Cut(rule, x) = w
  BY <1>9 DEF Cut, s, u, w
<1>12. rule = "date_day" => Cut(rule, x) = z
  BY DEF Cut, s, u, v, w, z
<1> QED
  BY <1>2, <1>6, <1>8, <1>10, <1>11, <1>12

\* What the rules make of a text that begins with a date: what they show of it.
LEMMA CutShown ==
    ASSUME NEW r, Four(r.y), Two(r.m), Two(r.d), NEW x, Dated(x, r.y, r.m, r.d),
           NEW rule \in {"date_year", "date_month", "date_day"}
    PROVE  Atoi(Cut(rule, x)) = Ok(Shown(rule, r))
<1>1. CASE rule = "date_year"
  <2>1. Atoi(Cut(rule, x)) = Ok(r.y)
    BY <1>1, CutDated, AtoiYear, Zenon
  <2> QED
    BY <1>1, <2>1 DEF Shown
<1>2. CASE rule = "date_month"
  <2>1. Atoi(Cut(rule, x)) = Ok(Month(r.y, r.m))
    <3>1. Shows6(Cut(rule, x), r.y, r.m)
      BY <1>2, CutDated
    <3> QED
      BY <3>1, AtoiMonth
  <2>2. Shown(rule, r) = r.y * 100 + r.m
    BY <1>2 DEF Shown
  <2>3. Month(r.y, r.m) = r.y * 100 + r.m
    BY DEF Month, Four, Two
  <2> QED
    BY <2>1, <2>2, <2>3
<1>3. CASE rule = "date_day"
  <2>1. Atoi(Cut(rule, x)) = Ok(Day(r.y, r.m, r.d))
    <3>1. Shows8(Cut(rule, x), r.y, r.m, r.d)
      BY <1>3, CutDated
    <3> QED
      BY <3>1, AtoiDay
  <2>2. Shown(rule, r) = (r.y * 100 + r.m) * 100 + r.d
    BY <1>3 DEF Shown
  <2>3. Day(r.y, r.m, r.d) = (r.y * 100 + r.m) * 100 + r.d
    BY DEF Day, Month, Four, Two
  <2> QED
    BY <2>1, <2>2, <2>3
<1> QED
  BY <1>1, <1>2, <1>3

\* For the dates of DateAssumption, with a time behind them or without.
LEMMA DateShown ==
    ASSUME NEW r \in [y : Nat, m : 1 .. 12, d : 1 .. 31], r.y <= LastYear, NEW time \in Seq(Int),
           NEW rule \in {"date_year", "date_month", "date_day"}
    PROVE  /\ Atoi(Cut(rule, Format(r))) = Ok(Shown(rule, r))
           /\ Atoi(Cut(rule, Format(r) \o time)) = Ok(Shown(rule, r))
           /\ Len(Format(r) \o time) >= 10 /\ Len(Format(r) \o time) \in Nat
<1>1. Four(r.y)
  BY DEF Four, LastYear
<1>2. \A v \in 1 .. 31 : Two(v)
  BY DEF Two
<1>3. \A v \in 1 .. 12 : Two(v)
  BY DEF Two
<1>4. r.m \in 1 .. 12 /\ r.d \in 1 .. 31
  OBVIOUS
<1>5. Two(r.m) /\ Two(r.d)
  BY <1>2, <1>3, <1>4, Zenon
<1>6. Dated(Format(r), r.y, r.m, r.d)
  BY <1>1, <1>5, FormatDated
<1>7. Dated(Format(r) \o time, r.y, r.m, r.d)
  BY <1>6, TimeDated
<1>8. Len(Format(r) \o time) >= 10 /\ Len(Format(r) \o time) \in Nat
  BY <1>7 DEF Dated
<1> QED
  BY <1>1, <1>5, <1>6, <1>7, <1>8, CutShown

-----------------------------------------------------------------------------
(* Sharding: the parsed rules *)

\* Node.Shard is what ParseShard made of the configuration.
ShardInv == cfg \in Configs /\ (phase = "parsed" => shards = ParseShard(cfg.shards))

\* No other step touches the rules.
LEMMA ShardInvariant == Spec => []ShardInv
<1>1. Init => ShardInv
  BY DEF Init, ShardInv
<1>2. ShardInv /\ [Next]_vars => ShardInv'
  <2> SUFFICES ASSUME ShardInv, [Next]_vars PROVE ShardInv'
    OBVIOUS
  <2>1. CASE Start
    BY <2>1 DEF Start, ShardInv
  <2>2. CASE cfg' = cfg /\ shards' = shards /\ (phase' = phase \/ phase' # "parsed")
    BY <2>2 DEF ShardInv
  <2>3. CASE NewNode /\ ~Start
    BY <2>2, <2>3 DEF NewNode, OpenFails, InitBalancer, AppendSlave, RandomOrder, Shuffle, Ready
  <2>4. CASE \E r \in Reader : GetSlaveConn(r)
    BY <2>2, <2>4 DEF GetSlaveConn, Lock, Pick, Step
  <2>5. CASE (\E w \in Writer : Transaction(w)) \/ Tick
    BY <2>2, <2>5 DEF Transaction, BeginTransaction, BeginTx, BeginExpires, Finish, FinishLate, Expire, Tick, TxOnly
  <2>6. CASE UNCHANGED vars
    BY <2>2, <2>6 DEF vars
  <2> QED
    BY <2>1, <2>3, <2>4, <2>5, <2>6 DEF Next
<1> QED
  BY <1>1, <1>2, PTL DEF Spec

\* The index of a row of a rule's table, once the rules are parsed.
LEMMA TableOf ==
    ASSUME ShardInv, Parses, Apart(cfg.shards), NEW c \in Tables, NEW keys
    PROVE  c \in ShardConfig /\ c.type \in Rules /\ Table(c, keys) = FindForKey(c, keys)
<1>1. PICK rules \in Seq(ShardConfig) : rules = cfg.shards
  BY ShardAssumption DEF ShardInv
<1>2. PICK k \in DOMAIN rules : c = rules[k]
  BY <1>1 DEF Tables
<1>3. Apart(rules) /\ \A i \in DOMAIN rules : rules[i].type \in Rules
  BY <1>1 DEF Parses
<1>4. GetTable(rules, ParseShard(rules), rules[k].table, keys) = FindForKey(rules[k], keys)
  BY <1>3, OwnRule
<1>5. shards = ParseShard(rules)
  BY <1>1 DEF ShardInv, Parses
<1> QED
  BY <1>1, <1>2, <1>3, <1>4, <1>5 DEF Table

\* A number is in the table of its range and in no other, and is refused
\* outside of the ranges, as long as no table has two rules and the ranges do
\* not end beyond the largest integer (shard.go:115-143, numkey.go:25-42).
THEOREM RangesRoute ==
    ASSUME \A x \in Configs : /\ Apart(x.shards)
                              /\ \A k \in DOMAIN x.shards : x.shards[k].type = "range" => Fits(x.shards[k])
    PROVE  Spec => []RangeRouting
<1>1. ShardInv => RangeRouting
  <2> SUFFICES ASSUME ShardInv, Parses, NEW c \in Tables, c.type = "range",
                      NEW n \in -MaxNumKey - 1 .. MaxNumKey
               PROVE  Table(c, <<Number("int64", n)>>) =
                          IF n \in 0 .. c.locations * c.limit - 1 THEN Ok(n \div c.limit)
                          ELSE IF n = MaxNumKey /\ c.locations * c.limit = MaxNumKey
                               THEN Ok(c.locations - 1)
                          ELSE Err
    BY DEF RangeRouting
  <2>1. Apart(cfg.shards) /\ Fits(c)
    BY DEF ShardInv, Tables
  <2>2. c \in ShardConfig /\ Table(c, <<Number("int64", n)>>) = FindForKey(c, <<Number("int64", n)>>)
    BY <2>1, TableOf
  <2>3. FindForKey(c, <<Number("int64", n)>>) = NumRangeShard(c, <<Number("int64", n)>>)
    BY DEF FindForKey
  <2> QED
    BY <2>1, <2>2, <2>3, RangeOf
<1> QED
  BY <1>1, ShardInvariant, PTL

\* A number is in one table whatever type its key has, alone or with a second
\* key, and the table is one there is, as long as no table has two rules and no
\* modulus is zero (shard.go:34-143).
THEOREM TypesAgree ==
    ASSUME \A x \in Configs : /\ Apart(x.shards)
                              /\ \A k \in DOMAIN x.shards : x.shards[k].type = "mod" => x.shards[k].modNum > 0
    PROVE  Spec => []KeyTypesAgree
<1>1. ShardInv => KeyTypesAgree
  <2> SUFFICES ASSUME ShardInv, Parses, NEW c \in Tables, c.type \in {"mod", "range"},
                      NEW n \in 0 .. MaxNumKey
               PROVE  LET same == {Number(type, n) : type \in Integer} \cup {Text("string", <<n>>)}
                          table == Table(c, <<Number("int", n)>>)
                      IN /\ \A k \in same : Table(c, <<k>>) = table
                         /\ \A k \in same : Table(c, <<k, Number("int", 2)>>)
                                                = Table(c, <<Number("int", n), Text("string", <<2>>)>>)
                         /\ c.type = "mod" => table.v \in 0 .. c.modNum - 1 /\ table.out = "ok"
    BY Zenon DEF KeyTypesAgree
  <2> DEFINE same == {Number(type, n) : type \in Integer} \cup {Text("string", <<n>>)}
  <2>1. Apart(cfg.shards) /\ (c.type = "mod" => c.modNum > 0)
    BY DEF ShardInv, Tables
  <2>2. c \in ShardConfig /\ c.type \in Rules /\ \A keys : Table(c, keys) = FindForKey(c, keys)
    BY <2>1, TableOf
  <2>3. 2 \in 0 .. MaxNumKey
    BY Width
  <2>4. Number("int", n) \in same /\ "int" \in Integer
    BY DEF Integer
  <2>5. ASSUME NEW k \in same PROVE KeyValue(c.type, k) = Ok(n)
    BY NumberValue, NumeralValue
  <2>6. KeyValue(c.type, Number("int", 2)) = Ok(2) /\ KeyValue(c.type, Text("string", <<2>>)) = Ok(2)
    BY <2>3, <2>4, NumberValue, NumeralValue
  <2> HIDE DEF same
  <2>7. ASSUME NEW k PROVE Joined(c.type, <<k>>) = KeyValue(c.type, k)
    <3>1. Len(<<k>>) = 1 /\ <<k>>[1] = k
      OBVIOUS
    <3> QED
      BY <3>1, Zenon DEF Joined
  <2>8. ASSUME NEW k \in same PROVE Table(c, <<k>>) = Table(c, <<Number("int", n)>>)
    <3>1. Joined(c.type, <<k>>) = Joined(c.type, <<Number("int", n)>>)
      BY <2>4, <2>5, <2>7
    <3> QED
      BY <2>2, <3>1, SameValue
  <2>9. ASSUME NEW k \in same
        PROVE  Table(c, <<k, Number("int", 2)>>) = Table(c, <<Number("int", n), Text("string", <<2>>)>>)
    <3>1. Joined(c.type, <<k, Number("int", 2)>>) = KeyValue(c.type, Text("string", <<n, 2>>))
      BY <2>3, <2>5, <2>6, PairValue
    <3>2. Joined(c.type, <<Number("int", n), Text("string", <<2>>)>>) = KeyValue(c.type, Text("string", <<n, 2>>))
      BY <2>3, <2>4, <2>5, <2>6, PairValue
    <3>3. Joined(c.type, <<k, Number("int", 2)>>) = Joined(c.type, <<Number("int", n), Text("string", <<2>>)>>)
      BY <3>1, <3>2, Zenon
    <3> QED
      BY <2>2, <3>3, SameValue
  <2>10. c.type = "mod" => /\ Table(c, <<Number("int", n)>>).v \in 0 .. c.modNum - 1
                           /\ Table(c, <<Number("int", n)>>).out = "ok"
    <3> SUFFICES ASSUME c.type = "mod"
                 PROVE  /\ Table(c, <<Number("int", n)>>).v \in 0 .. c.modNum - 1
                        /\ Table(c, <<Number("int", n)>>).out = "ok"
      OBVIOUS
    <3>1. Joined("mod", <<Number("int", n)>>) = Ok(n)
      BY <2>4, <2>5, <2>7
    <3>2. Ok(n) = [out |-> "ok", v |-> n]
      BY DEF Ok
    <3>3. ModShard(c, <<Number("int", n)>>) = [out |-> "ok", v |-> n % c.modNum]
      BY <2>1, <3>1, <3>2 DEF ModShard
    <3>4. n % c.modNum \in 0 .. c.modNum - 1
      <4>1. PICK m \in Nat : m = c.modNum /\ m > 0
        BY <2>1, <2>2 DEF ShardConfig
      <4>2. n \in Nat /\ n % m \in 0 .. m - 1
        BY <4>1, Width
      <4> QED
        BY <4>1, <4>2
    <3>5. Table(c, <<Number("int", n)>>) = ModShard(c, <<Number("int", n)>>)
      BY <2>2 DEF FindForKey
    <3> QED
      BY <3>3, <3>4, <3>5
  <2> QED
    BY <2>8, <2>9, <2>10 DEF same
<1> QED
  BY <1>1, ShardInvariant, PTL

\* Under a rule over dates a time up to the year 9999 is in the table of its
\* day, month or year, in whichever form its key gives it, as long as no table
\* has two rules (shard.go:160-282).
THEOREM DatesRoute ==
    ASSUME \A x \in Configs : Apart(x.shards)
    PROVE  Spec => []DateRouting
<1>1. ShardInv => DateRouting
  <2> SUFFICES ASSUME ShardInv, Parses, NEW c \in Tables, c.type \notin {"mod", "range"},
                      NEW n \in 0 .. MaxNumKey, DateOf[n].y <= LastYear, NEW k \in TimeKeys(n, DateOf[n])
               PROVE  /\ Table(c, <<k>>) = Ok(Shown(c.type, DateOf[n]))
                      /\ Table(c, <<k, Number("int", 2)>>) = Ok(Shown(c.type, DateOf[n]))
    BY Zenon DEF DateRouting
  <2>1. Apart(cfg.shards)
    BY DEF ShardInv
  <2>2. c.type \in Rules /\ \A keys : Table(c, keys) = FindForKey(c, keys)
    BY <2>1, TableOf
  <2>3. c.type \in {"date_year", "date_month", "date_day"}
    BY <2>2 DEF Rules
  <2>4. DateOf[n] \in [y : Nat, m : 1 .. 12, d : 1 .. 31]
    BY DateAssumption
  <2>5. \A keys : Table(c, keys) = DateShard(c.type, keys)
    BY <2>2, <2>3 DEF FindForKey
  <2>6. \A keys : keys # << >> => DateShard(c.type, keys) = DateKey(c.type, keys[1])
    BY DEF DateShard
  <2>7. DateKey(c.type, k) = Ok(Shown(c.type, DateOf[n]))
    <3>1. CASE k \in {Number(type, n) : type \in Integer}
      <4>1. k.type \in Integer /\ k.num = n
        BY <3>1 DEF Number
      <4>2. n \in -MaxNumKey - 1 .. MaxNumKey
        BY Width
      <4>3. Signed(n) = n
        BY <4>2, SignedIs
      <4>4. Atoi(Cut(c.type, Format(DateOf[n]))) = Ok(Shown(c.type, DateOf[n]))
        <5>1. << >> \in Seq(Int)
          OBVIOUS
        <5> QED
          BY <2>3, <2>4, <5>1, DateShown, Zenon
      <4>5. c.type = "date_year" => Shown(c.type, DateOf[n]) = DateOf[n].y
        BY DEF Shown
      <4>6. k.type # "string"
        BY <4>1 DEF Integer
      <4> QED
        BY <4>1, <4>3, <4>4, <4>5, <4>6 DEF DateKey
    <3>2. CASE \E time \in {<< >>, <<Blank, 1, 2>>} : k = CharText(Format(DateOf[n]) \o time)
      <4>1. PICK time \in Seq(Int) : k = CharText(Format(DateOf[n]) \o time)
        <5>1. << >> \in Seq(Int)
          OBVIOUS
        <5>2. <<Blank, 1, 2>> \in Seq(Int)
          BY DEF Blank
        <5> QED
          BY <3>2, <5>1, <5>2, Zenon
      <4> DEFINE x == Format(DateOf[n]) \o time
      <4>2. k.type = "string" /\ k.chars = x
        BY <4>1 DEF CharText
      <4>3. Len(x) >= 10 /\ Len(x) \in Nat /\ Atoi(Cut(c.type, x)) = Ok(Shown(c.type, DateOf[n]))
        BY <2>3, <2>4, DateShown, Zenon
      <4> HIDE DEF x
      <4>4. "string" \notin Integer
        BY DEF Integer
      <4>5. ~(Len(k.chars) < (IF c.type = "date_year" THEN 4 ELSE 10))
        BY <4>2, <4>3
      <4> QED
        BY <4>2, <4>3, <4>4, <4>5 DEF DateKey
    <3> QED
      BY <3>1, <3>2 DEF TimeKeys
  <2>8. ASSUME NEW l PROVE <<k>> # << >> /\ <<k, l>> # << >> /\ <<k>>[1] = k /\ <<k, l>>[1] = k
    OBVIOUS
  <2> QED
    BY <2>5, <2>6, <2>7, <2>8
<1> QED
  BY <1>1, ShardInvariant, PTL
=============================================================================

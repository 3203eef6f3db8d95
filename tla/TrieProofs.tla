---------------------------- MODULE TrieProofs ----------------------------
(***************************************************************************)
(* TLAPS proofs about Trie, for any runes, any number of goroutines and    *)
(* any scripts: the nodes form a tree, and below the Apart runes Add and   *)
(* Del behave like operations on a set of words that take effect at one    *)
(* moment, whatever Dels tear out below the other runes meanwhile.         *)
(***************************************************************************)
EXTENDS Trie, SequenceTheorems, WellFoundedInduction, TLAPS

\* Thread t does op with the word w somewhere in p.
Does(p, t, op, w) == \E k \in DOMAIN p[t] : p[t][k] = [op |-> op, word |-> w]

\* Some thread adds w.
AddedIn(p, w) == w # << >> /\ \E u \in Thread : Does(p, u, "add", w)

\* The root and every node that is a child, below the Apart runes.
Linked == {Root} \cup {n \in Kids(NodeId) : Tidy(label[n])}

\* The words that end at linked nodes.
Held == {label[n] : n \in {m \in Linked : end[m]}}

\* Every node that was made has runes on its way, except the root.
Named == \A n \in Root + 1 .. fresh - 1 : label[n] # << >>

\* Below the Apart runes only linked nodes have children: what Del unlinks
\* there has none left.
Whole == \A n \in NodeId, c \in Char : kids[n][c] # None /\ Tidy(label[n]) => n \in Linked

\* Every node is on the way of an added word; words end where one does.
Sourced(p) ==
    /\ \A n \in NodeId, c \in Char : kids[n][c] # None =>
          \E w \in Seq(Char) : /\ AddedIn(p, w) /\ Len(label[n]) < Len(w)
                               /\ Append(label[n], c) = SubSeq(w, 1, Len(label[n]) + 1)
    /\ \A n \in NodeId : end[n] => AddedIn(p, label[n])

\* A walk through the nodes q along the word w; below an Apart rune its nodes
\* are still linked.
Walk(q, w) ==
    /\ Len(q) \in 1 .. Len(w) + 1 /\ q[1] = Root
    /\ \A k \in 1 .. Len(q) : q[k] < fresh /\ label[q[k]] = SubSeq(w, 1, k - 1)
    /\ Tidy(w) => \A k \in 1 .. Len(q) - 1 : kids[q[k]][w[k]] = q[k + 1]

\* What t is still to do, and what it is doing, is in p.
Listed(p, t) ==
    /\ \A k \in DOMAIN script[t] : Does(p, t, script[t][k].op, script[t][k].word)
    /\ job[t].op \in {"add", "del"} => Does(p, t, job[t].op, job[t].word)
    /\ job[t].op = "delUp" => Does(p, t, "del", job[t].word)
    /\ job[t].op = "delUp" /\ Tidy(job[t].word) => AddedIn(p, job[t].word)

Walked(t) ==
    /\ job[t].op = "none" => job[t] = NoJob /\ path[t] = << >>
    /\ job[t].op # "none" => job[t].word # << >> /\ Walk(path[t], job[t].word)
    /\ job[t].op \in {"del", "delUp"} => Len(path[t]) <= Len(job[t].word)

\* On the way up the node to delete is there and has no children.
Bare(t) ==
    job[t].op = "delUp" /\ Tidy(job[t].word) =>
        Kid(t) # None /\ \A c \in Char : kids[Kid(t)][c] = None

\* The inductive invariant, for the script p the goroutines began with.
Steady(p) ==
    /\ TypeOK /\ Named /\ Whole /\ Sourced(p)
    /\ \A t \in Thread : Listed(p, t) /\ Walked(t) /\ Bare(t)

-----------------------------------------------------------------------------
(* Sequences *)

\* A set of naturals that is not empty has a smallest member.
LEMMA SmallestOf ==
    ASSUME NEW S \in SUBSET Nat, S # {}
    PROVE  \E x \in S : \A y \in S : x <= y
<1> DEFINE R == {ss \in Nat \X Nat : ss[1] < ss[2]}
<1>1. IsWellFoundedOn(R, Nat)
  BY NatLessThanWellFounded DEF OpToRel
<1>2. \A x, y \in S : <<y, x>> \notin R => x <= y
  OBVIOUS
<1> HIDE DEF R
<1>3. \E x \in S : \A y \in S : ~(<<y, x>> \in R)
  BY <1>1, WFMin
<1> QED
  BY <1>2, <1>3

\* A word with one more rune.
LEMMA OneMore ==
    ASSUME NEW s \in Seq(Char), NEW e \in Char
    PROVE  /\ Append(s, e) \in Seq(Char) /\ Append(s, e) # << >> /\ Len(Append(s, e)) = Len(s) + 1
           /\ \A i \in 1 .. Len(s) : Append(s, e)[i] = s[i]
           /\ Append(s, e)[Len(s) + 1] = e
  BY AppendProperties

\* Words with one more rune are equal only rune by rune.
LEMMA SameAppend ==
    ASSUME NEW s \in Seq(Char), NEW r \in Seq(Char), NEW e \in Char, NEW f \in Char,
           Append(s, e) = Append(r, f)
    PROVE  s = r /\ e = f
  BY AppendInjective

\* The beginnings of a word.
LEMMA Beginning ==
    ASSUME NEW w \in Seq(Char), NEW k \in 0 .. Len(w)
    PROVE  /\ SubSeq(w, 1, k) \in Seq(Char) /\ Len(SubSeq(w, 1, k)) = k
           /\ \A i \in 1 .. k : SubSeq(w, 1, k)[i] = w[i]
<1>1. \A i \in 1 .. k : w[i] \in Char
  BY ElementOfSeq
<1>2. k \in Int /\ 1 \in Int /\ Len(w) \in Nat
  BY LenProperties
<1> QED
  BY <1>1, <1>2, SubSeqProperties

\* A beginning and the next rune are the next beginning.
LEMMA NextBeginning ==
    ASSUME NEW w \in Seq(Char), NEW k \in 1 .. Len(w)
    PROVE  Append(SubSeq(w, 1, k - 1), w[k]) = SubSeq(w, 1, k)
<1>1. k - 1 \in 0 .. Len(w) /\ k \in 0 .. Len(w) /\ w[k] \in Char
  BY ElementOfSeq, LenProperties
<1>2. PICK s \in Seq(Char) : s = SubSeq(w, 1, k - 1) /\ Len(s) = k - 1 /\ \A i \in 1 .. k - 1 : s[i] = w[i]
  BY <1>1, Beginning
<1>3. PICK r \in Seq(Char) : r = SubSeq(w, 1, k) /\ Len(r) = k /\ \A i \in 1 .. k : r[i] = w[i]
  BY <1>1, Beginning
<1>4. PICK q \in Seq(Char) : /\ q = Append(s, w[k]) /\ Len(q) = k
                             /\ \A i \in 1 .. k - 1 : q[i] = w[i]
                             /\ q[k] = w[k]
  <2>1. PICK e \in Char : e = w[k]
    BY <1>1
  <2>2. /\ Append(s, e) \in Seq(Char) /\ Len(Append(s, e)) = Len(s) + 1
        /\ \A i \in 1 .. Len(s) : Append(s, e)[i] = s[i]
        /\ Append(s, e)[Len(s) + 1] = e
    BY OneMore, Zenon
  <2>3. (k - 1) + 1 = k
    OBVIOUS
  <2> QED
    BY <1>2, <2>1, <2>2, <2>3
<1>5. \A i \in 1 .. Len(q) : q[i] = r[i]
  BY <1>3, <1>4
<1>6. q = r
  BY <1>3, <1>4, <1>5, SeqEqual
<1> QED
  BY <1>2, <1>3, <1>4, <1>6

\* Equal beginnings are equally long, and begin with the same rune.
LEMMA SameBeginning ==
    ASSUME NEW w \in Seq(Char), NEW v \in Seq(Char), NEW j \in 0 .. Len(w), NEW k \in 0 .. Len(v),
           SubSeq(w, 1, j) = SubSeq(v, 1, k)
    PROVE  j = k /\ \A i \in 1 .. k : w[i] = v[i]
<1>1. PICK s \in Seq(Char) : s = SubSeq(w, 1, j) /\ Len(s) = j /\ \A i \in 1 .. j : s[i] = w[i]
  BY Beginning
<1>2. PICK r \in Seq(Char) : r = SubSeq(v, 1, k) /\ Len(r) = k /\ \A i \in 1 .. k : r[i] = v[i]
  BY Beginning
<1> QED
  BY <1>1, <1>2

\* A beginning of a word begins with the same rune, and so does what is longer.
LEMMA TidyPart ==
    ASSUME NEW w \in Seq(Char), NEW k \in 1 .. Len(w)
    PROVE  Tidy(SubSeq(w, 1, k)) <=> Tidy(w)
<1>1. k \in 0 .. Len(w) /\ Len(w) \in Nat /\ 1 \in 1 .. k
  BY LenProperties
<1>2. PICK s \in Seq(Char) : s = SubSeq(w, 1, k) /\ Len(s) = k /\ s[1] = w[1]
  BY <1>1, Beginning
<1>3. s # << >> /\ w # << >>
  BY <1>1, <1>2, EmptySeq
<1> QED
  BY <1>2, <1>3 DEF Tidy

LEMMA TidyMore ==
    ASSUME NEW s \in Seq(Char), NEW e \in Char, s # << >>
    PROVE  Tidy(Append(s, e)) <=> Tidy(s)
<1>1. 1 \in 1 .. Len(s)
  BY EmptySeq, LenProperties
<1>2. Append(s, e) # << >> /\ Append(s, e)[1] = s[1]
  BY <1>1, OneMore
<1> QED
  BY <1>2 DEF Tidy

-----------------------------------------------------------------------------
(* The tree *)

\* What TypeOK says of a child.
LEMMA KidFacts ==
    ASSUME TypeOK, NEW n \in NodeId, NEW c \in Char, kids[n][c] # None
    PROVE  /\ kids[n][c] \in NodeId /\ kids[n][c] > n /\ kids[n][c] < fresh /\ kids[n][c] # Root
           /\ n < fresh /\ (Tidy(label[kids[n][c]]) => kids[n][c] \in Linked)
           /\ label[n] \in Seq(Char) /\ label[kids[n][c]] = Append(label[n], c)
<1>1. kids[n][c] \in NodeId
  BY DEF TypeOK
<1>2. kids[n][c] \in n + 1 .. fresh - 1 /\ label[kids[n][c]] = Append(label[n], c)
  BY DEF TypeOK, Tree
<1>3. n \in Int /\ n >= 1 /\ fresh \in Int
  BY TrieAssumption DEF NodeId, Root, TypeOK
<1>4. label[n] \in Seq(Char)
  BY DEF TypeOK
<1>5. Tidy(label[kids[n][c]]) => kids[n][c] \in Linked
  <2>1. kids[n][c] \in Kids(NodeId)
    BY DEF Kids
  <2> QED
    BY <2>1 DEF Linked
<1>6. kids[n][c] > n /\ kids[n][c] < fresh /\ kids[n][c] # Root /\ n < fresh
  BY <1>2, <1>3 DEF Root
<1> QED
  BY <1>1, <1>2, <1>4, <1>5, <1>6

\* A linked node that is not the root has a linked parent, made before it.
LEMMA ParentOf ==
    ASSUME TypeOK, Named, Whole, NEW x \in Linked, x # Root
    PROVE  \E n \in NodeId, c \in Char :
               /\ kids[n][c] = x /\ kids[n][c] # None /\ n \in Linked /\ n < x /\ x \in NodeId
               /\ label[n] \in Seq(Char) /\ label[x] = Append(label[n], c)
<1>1. PICK n \in NodeId, c \in Char : kids[n][c] = x /\ kids[n][c] # None /\ Tidy(label[x])
  BY DEF Linked, Kids
<1>2. n < x /\ x \in NodeId /\ n < fresh /\ label[n] \in Seq(Char) /\ label[x] = Append(label[n], c)
  BY <1>1, KidFacts DEF NodeId
<1>3. n \in Linked
  <2>1. CASE n = Root
    BY <2>1 DEF Linked
  <2>2. CASE n # Root
    <3>1. n \in Root + 1 .. fresh - 1
      BY <1>2, <2>2, TrieAssumption DEF NodeId, Root, TypeOK
    <3>2. Tidy(label[n])
      BY <1>1, <1>2, <3>1, TidyMore DEF Named
    <3> QED
      BY <1>1, <3>2 DEF Whole
  <2> QED
    BY <2>1, <2>2
<1> QED
  BY <1>1, <1>2, <1>3

\* Linked nodes are nodes that have been made.
LEMMA LinkedMade ==
    ASSUME TypeOK, NEW x \in Linked
    PROVE  x \in NodeId /\ x < fresh /\ x \in Nat /\ label[x] \in Seq(Char)
<1>1. CASE x = Root
  BY <1>1, TrieAssumption DEF TypeOK, Root, NodeId
<1>2. CASE x # Root
  <2>1. PICK n \in NodeId, c \in Char : kids[n][c] = x /\ kids[n][c] # None
    BY <1>2 DEF Linked, Kids
  <2> QED
    BY <2>1, KidFacts DEF TypeOK, NodeId
<1> QED
  BY <1>1, <1>2

\* A set that has the root and the children of its members has every linked node.
LEMMA LinkedLeast ==
    ASSUME TypeOK, Named, Whole, NEW S, Root \in S,
           \A n \in NodeId, c \in Char : n \in S /\ kids[n][c] # None => kids[n][c] \in S
    PROVE  Linked \subseteq S
<1>1. SUFFICES ASSUME Linked \ S # {} PROVE FALSE
  OBVIOUS
<1>2. Linked \ S \in SUBSET Nat
  BY LinkedMade
<1>3. PICK x \in Linked \ S : \A y \in Linked \ S : x <= y
  BY <1>1, <1>2, SmallestOf
<1>4. PICK n \in NodeId, c \in Char : kids[n][c] = x /\ kids[n][c] # None /\ n \in Linked /\ n < x
  BY <1>3, ParentOf
<1>5. n \in Nat /\ x \in Nat
  BY <1>3, <1>4, LinkedMade
<1>6. n \in S
  BY <1>3, <1>4, <1>5
<1> QED
  BY <1>3, <1>4, <1>6

\* The nodes cycleRead comes to: the least set with the root and the children
\* of its members is one such set.
LEMMA ReachableIs ==
    ASSUME TypeOK
    PROVE  Reachable \in SUBSET NodeId /\ Reachable = {Root} \cup Kids(Reachable)
<1> DEFINE L == {n \in NodeId : \A T \in SUBSET NodeId : Root \in T /\ Kids(T) \subseteq T => n \in T}
<1>1. \A n \in NodeId, c \in Char : kids[n][c] # None => kids[n][c] \in NodeId
  BY KidFacts
<1>2. Root \in NodeId
  BY TrieAssumption DEF Root, NodeId
<1>3. Root \in L
  BY <1>2
<1>4. Kids(L) \subseteq L
  <2>1. SUFFICES ASSUME NEW n \in L, NEW c \in Char, kids[n][c] # None PROVE kids[n][c] \in L
    BY DEF Kids
  <2>2. ASSUME NEW T \in SUBSET NodeId, Root \in T, Kids(T) \subseteq T PROVE kids[n][c] \in T
    <3>1. n \in T
      BY <2>2
    <3> QED
      BY <2>1, <2>2, <3>1 DEF Kids
  <2> QED
    BY <1>1, <2>1, <2>2
<1>5. L \subseteq {Root} \cup Kids(L)
  <2>1. PICK T : T = {Root} \cup Kids(L)
    OBVIOUS
  <2>2. T \subseteq L /\ T \in SUBSET NodeId
    BY <1>3, <1>4, <2>1
  <2>3. Kids(T) \subseteq Kids(L)
    BY <2>2 DEF Kids
  <2>4. Kids(T) \subseteq T /\ Root \in T
    BY <2>1, <2>3
  <2> QED
    BY <2>1, <2>2, <2>4
<1>6. L = {Root} \cup Kids(L) /\ L \in SUBSET NodeId
  BY <1>3, <1>4, <1>5
<1> HIDE DEF L
<1>7. \E S \in SUBSET NodeId : S = {Root} \cup Kids(S)
  BY <1>6
<1> QED
  BY <1>7 DEF Reachable

\* Between two steps ReadAll returns, of the words that begin with Apart
\* runes, those that end at linked nodes.
LEMMA ReadAllIsHeld ==
    ASSUME TypeOK, Named, Whole
    PROVE  {w \in ReadAll : Tidy(w)} = Held
<1>1. Reachable \in SUBSET NodeId /\ Reachable = {Root} \cup Kids(Reachable)
  BY ReachableIs
<1>2. Linked \subseteq Reachable
  <2>1. Root \in Reachable
    BY <1>1
  <2>2. \A n \in NodeId, c \in Char : n \in Reachable /\ kids[n][c] # None => kids[n][c] \in Reachable
    BY <1>1 DEF Kids
  <2> QED
    BY <2>1, <2>2, LinkedLeast
<1>3. \A n \in Reachable : Tidy(label[n]) => n \in Linked
  BY <1>1 DEF Linked, Kids
<1>4. \A n \in Linked : end[n] => Tidy(label[n])
  BY DEF Linked, TypeOK
<1> QED
  BY <1>2, <1>3, <1>4 DEF ReadAll, Held

\* No two linked nodes have the same runes.
LEMMA UniqueLabels ==
    ASSUME TypeOK, Named, Whole, NEW x \in Linked, NEW y \in Linked, label[x] = label[y]
    PROVE  x = y
<1> DEFINE T == {n \in Linked : \E m \in Linked : m # n /\ label[m] = label[n]}
<1>1. SUFFICES ASSUME T # {} PROVE FALSE
  OBVIOUS
<1>2. T \in SUBSET Nat
  BY LinkedMade
<1>3. PICK n \in T : \A k \in T : n <= k
  BY <1>1, <1>2, SmallestOf
<1>4. PICK m \in Linked : m # n /\ label[m] = label[n]
  BY <1>3
<1>5. \A z \in Linked : z # Root => label[z] # label[Root]
  <2>1. SUFFICES ASSUME NEW z \in Linked, z # Root PROVE label[z] # label[Root]
    OBVIOUS
  <2>2. PICK k \in NodeId, c \in Char : label[k] \in Seq(Char) /\ label[z] = Append(label[k], c)
    BY <2>1, ParentOf
  <2>3. label[z] # << >>
    BY <2>2, OneMore, Zenon
  <2> QED
    BY <2>3 DEF TypeOK
<1>6. n # Root /\ m # Root
  BY <1>3, <1>4, <1>5
<1>7. PICK k \in NodeId, c \in Char : /\ kids[k][c] = n /\ kids[k][c] # None /\ k \in Linked /\ k < n
                                      /\ label[k] \in Seq(Char) /\ label[n] = Append(label[k], c)
  BY <1>3, <1>6, ParentOf
<1>8. PICK l \in NodeId, d \in Char : /\ kids[l][d] = m /\ kids[l][d] # None /\ l \in Linked
                                      /\ label[l] \in Seq(Char) /\ label[m] = Append(label[l], d)
  BY <1>4, <1>6, ParentOf
<1>9. label[k] = label[l] /\ c = d
  <2>1. Append(label[k], c) = Append(label[l], d)
    BY <1>4, <1>7, <1>8
  <2>2. label[k] \in Seq(Char) /\ label[l] \in Seq(Char)
    BY <1>7, <1>8
  <2> QED
    BY <2>1, <2>2, SameAppend
<1>10. k # l
  BY <1>4, <1>7, <1>8, <1>9
<1>11. k \in T
  BY <1>7, <1>8, <1>9, <1>10
<1>12. k \in Nat /\ n \in Nat
  BY <1>3, <1>7, LinkedMade
<1> QED
  BY <1>3, <1>7, <1>11, <1>12

\* On the way to a linked node there is a linked node for every beginning.
LEMMA OnTheWay ==
    ASSUME TypeOK, Named, Whole, NEW x \in Linked, NEW k \in 0 .. Len(label[x])
    PROVE  \E y \in Linked : label[y] = SubSeq(label[x], 1, k)
<1> DEFINE w == label[x]
           T == {j \in 0 .. Len(w) : \E y \in Linked : label[y] = SubSeq(w, 1, j)}
           U == {j \in Nat : \E i \in T : j = i /\ i >= k}
<1>1. w \in Seq(Char) /\ Len(w) \in Nat
  BY LinkedMade, LenProperties
<1> HIDE DEF w
<1>2. SubSeq(w, 1, Len(w)) = w
  BY <1>1, SubSeqFull
<1>3. Len(w) \in U /\ k \in 0 .. Len(w)
  BY <1>1, <1>2 DEF w
<1>4. PICK j \in U : \A i \in U : j <= i
  BY <1>3, SmallestOf
<1>5. j \in T /\ j >= k /\ j \in Nat /\ j \in 0 .. Len(w)
  BY <1>4
<1>6. CASE j = k
  BY <1>5, <1>6 DEF w
<1>7. CASE j # k
  <2>1. j \in 1 .. Len(w)
    BY <1>3, <1>5, <1>7
  <2>2. PICK y \in Linked : label[y] = SubSeq(w, 1, j)
    BY <1>5
  <2>3. label[y] # << >>
    BY <1>1, <1>5, <2>1, <2>2, Beginning, EmptySeq
  <2>4. y # Root
    BY <2>3 DEF TypeOK
  <2>5. PICK n \in NodeId, c \in Char : n \in Linked /\ label[n] \in Seq(Char) /\ label[y] = Append(label[n], c)
    BY <2>4, ParentOf
  <2>6. Append(SubSeq(w, 1, j - 1), w[j]) = SubSeq(w, 1, j)
    BY <1>1, <2>1, NextBeginning
  <2>7. SubSeq(w, 1, j - 1) \in Seq(Char) /\ w[j] \in Char
    BY <1>1, <2>1, Beginning, ElementOfSeq
  <2>8. label[n] = SubSeq(w, 1, j - 1)
    <3>1. Append(label[n], c) = Append(SubSeq(w, 1, j - 1), w[j])
      BY <2>2, <2>5, <2>6, Zenon
    <3>2. PICK r \in Seq(Char), d \in Char : r = SubSeq(w, 1, j - 1) /\ d = w[j]
      BY <2>7
    <3> QED
      BY <2>5, <3>1, <3>2, SameAppend
  <2>9. j - 1 \in U
    BY <1>3, <1>5, <1>7, <2>1, <2>5, <2>8
  <2> QED
    BY <1>4, <1>5, <2>9
<1> QED
  BY <1>6, <1>7

-----------------------------------------------------------------------------
(* Scripts and walks *)

\* What Apart means, in the words of the invariant.
LEMMA ApartFacts ==
    ASSUME NEW p \in Scripts, NEW t \in Thread, NEW w \in Seq(Char), Tidy(w), Does(p, t, "del", w),
           NEW u \in Thread, NEW v \in Seq(Char), v # << >>, Does(p, u, "add", v), v[1] = w[1]
    PROVE  /\ u = t /\ Len(w) <= Len(v)
           /\ \A x \in Seq(Char) : AddedIn(p, x) /\ x[1] = w[1] => x = v
<1> DEFINE X == [thread |-> t, job |-> [op |-> "del", word |-> w]]
           Y == [thread |-> u, job |-> [op |-> "add", word |-> v]]
<1>1. \A s \in Thread, op \in {"add", "del"}, x \in Seq(Char) :
          Does(p, s, op, x) => [thread |-> s, job |-> [op |-> op, word |-> x]] \in Calls(p)
  BY DEF Does, Calls
<1>2. w # << >> /\ w[1] \in Apart
  BY DEF Tidy
<1>3. X.job.word = w /\ X.thread = t /\ Y.job.word = v /\ Y.thread = u
  OBVIOUS
<1>4. X \in CallsAt(p, "del", w[1])
  BY <1>1, <1>2 DEF CallsAt
<1>5. Y \in CallsAt(p, "add", w[1])
  BY <1>1 DEF CallsAt
<1> HIDE DEF X, Y
<1>6. /\ Y.thread = X.thread /\ Len(X.job.word) <= Len(Y.job.word)
      /\ \A z \in CallsAt(p, "add", w[1]) : z.job.word = Y.job.word
  BY <1>2, <1>4, <1>5 DEF Apart
<1>7. ASSUME NEW x \in Seq(Char), AddedIn(p, x), x[1] = w[1] PROVE x = v
  <2>1. PICK s \in Thread : Does(p, s, "add", x)
    BY <1>7 DEF AddedIn
  <2>2. [thread |-> s, job |-> [op |-> "add", word |-> x]] \in CallsAt(p, "add", w[1])
    BY <1>1, <1>7, <2>1 DEF CallsAt, AddedIn
  <2> QED
    BY <1>3, <1>6, <2>2
<1> QED
  BY <1>3, <1>6, <1>7

\* What TypeOK says of a thread that is in a call.
LEMMA InCall ==
    ASSUME NEW p, Steady(p), NEW t \in Thread, job[t].op # "none"
    PROVE  /\ job[t].word \in Seq(Char) /\ job[t].word # << >> /\ Len(job[t].word) \in Nat \ {0}
           /\ job[t].op \in {"add", "del", "delUp"}
           /\ path[t] \in Seq(NodeId) /\ Len(path[t]) \in 1 .. Len(job[t].word) + 1
           /\ job[t].op \in {"del", "delUp"} => Len(path[t]) <= Len(job[t].word)
           /\ Walk(path[t], job[t].word)
<1>1. job[t] \in [op : {"none", "add", "del", "delUp"}, word : Seq(Char)] /\ path[t] \in Seq(NodeId)
  BY DEF Steady, TypeOK
<1>2. Walked(t)
  BY DEF Steady
<1>3. job[t].word \in Seq(Char) /\ job[t].op \in {"add", "del", "delUp"}
  BY <1>1
<1>4. job[t].word # << >> /\ Walk(path[t], job[t].word)
  BY <1>2 DEF Walked
<1>5. Len(job[t].word) \in Nat \ {0}
  BY <1>3, <1>4, EmptySeq
<1> QED
  BY <1>1, <1>2, <1>3, <1>4, <1>5 DEF Walk, Walked

\* Nobody else is in a call of a word that begins like one being deleted.
LEMMA Alone ==
    ASSUME NEW p \in Scripts, Steady(p), NEW t \in Thread, NEW u \in Thread, t # u,
           job[u].op # "none", Tidy(job[t].word),
           job[t].op = "delUp" \/ (job[t].op = "del" /\ job[u].op = "add")
    PROVE  job[u].word[1] # job[t].word[1]
<1>1. SUFFICES ASSUME job[u].word[1] = job[t].word[1] PROVE FALSE
  OBVIOUS
<1>2. /\ job[t].word \in Seq(Char) /\ job[t].word # << >>
      /\ job[u].word \in Seq(Char) /\ job[u].word # << >> /\ job[u].op \in {"add", "del", "delUp"}
  BY InCall
<1>3. Listed(p, t) /\ Listed(p, u)
  BY DEF Steady
<1>4. Does(p, t, "del", job[t].word)
  <2>1. job[t].op = "delUp" => Does(p, t, "del", job[t].word)
    BY <1>3, Zenon DEF Listed
  <2>2. job[t].op \in {"add", "del"} => Does(p, t, job[t].op, job[t].word)
    BY <1>3, Zenon DEF Listed
  <2> QED
    BY <2>1, <2>2
<1>5. job[u].op # "add"
  <2>1. SUFFICES ASSUME job[u].op = "add" PROVE FALSE
    OBVIOUS
  <2>2. Does(p, u, "add", job[u].word)
    BY <1>3, <2>1 DEF Listed
  <2> QED
    BY <1>1, <1>2, <1>4, <2>2, ApartFacts
<1>6. AddedIn(p, job[t].word) /\ Does(p, u, "del", job[u].word)
  <2>1. job[t].op = "delUp" => AddedIn(p, job[t].word)
    BY <1>3, Zenon DEF Listed
  <2>2. job[u].op = "delUp" => Does(p, u, "del", job[u].word)
    BY <1>3, Zenon DEF Listed
  <2>3. job[u].op \in {"add", "del"} => Does(p, u, job[u].op, job[u].word)
    BY <1>3, Zenon DEF Listed
  <2> QED
    BY <1>2, <1>5, <2>1, <2>2, <2>3
<1>7. PICK s \in Thread : Does(p, s, "add", job[t].word)
  BY <1>6 DEF AddedIn
<1>8. s = t
  BY <1>2, <1>4, <1>7, ApartFacts
<1>9. s = u
  <2>1. Tidy(job[u].word)
    BY <1>1, <1>2 DEF Tidy
  <2> QED
    BY <1>1, <1>2, <1>6, <1>7, <2>1, ApartFacts
<1> QED
  BY <1>8, <1>9

\* The nodes of a walk were made, and their runes begin its word; below an
\* Apart rune they are linked.
LEMMA WalkNodes ==
    ASSUME NEW p, Steady(p), NEW t \in Thread, job[t].op # "none", NEW k \in 1 .. Len(path[t])
    PROVE  /\ path[t][k] \in NodeId /\ path[t][k] < fresh
           /\ label[path[t][k]] = SubSeq(job[t].word, 1, k - 1)
           /\ Tidy(job[t].word) => path[t][k] \in Linked
<1>1. /\ job[t].word \in Seq(Char) /\ path[t] \in Seq(NodeId) /\ Len(path[t]) \in 1 .. Len(job[t].word) + 1
      /\ Walk(path[t], job[t].word)
  BY InCall
<1>2. path[t][k] \in NodeId
  BY <1>1, ElementOfSeq
<1>3. label[path[t][k]] = SubSeq(job[t].word, 1, k - 1) /\ path[t][k] < fresh
  BY <1>1 DEF Walk
<1>4. ASSUME Tidy(job[t].word) PROVE path[t][k] \in Linked
  <2>1. CASE k = 1
    BY <1>1, <2>1 DEF Walk, Linked
  <2>2. CASE k # 1
    <3>1. k - 1 \in 1 .. Len(path[t]) - 1 /\ k - 1 \in 1 .. Len(path[t]) /\ k - 1 \in 1 .. Len(job[t].word)
          /\ (k - 1) + 1 = k
      BY <1>1, <2>2
    <3>2. kids[path[t][k - 1]][job[t].word[k - 1]] = path[t][k]
      BY <1>1, <1>4, <3>1 DEF Walk
    <3>3. path[t][k - 1] \in NodeId /\ job[t].word[k - 1] \in Char
      BY <1>1, <3>1, ElementOfSeq
    <3>4. path[t][k] # None
      BY <1>2, TrieAssumption DEF NodeId
    <3>5. Tidy(label[path[t][k]])
      BY <1>1, <1>3, <1>4, <3>1, TidyPart
    <3> QED
      BY <3>2, <3>3, <3>4, <3>5 DEF Linked, Kids
  <2> QED
    BY <2>1, <2>2
<1> QED
  BY <1>2, <1>3, <1>4

\* The node a walk is at, and the edge before it.
LEMMA WalkEnd ==
    ASSUME NEW p, Steady(p), NEW t \in Thread, job[t].op # "none"
    PROVE  /\ (Tidy(job[t].word) => Node(t) \in Linked) /\ Node(t) \in NodeId /\ Node(t) < fresh
           /\ label[Node(t)] \in Seq(Char) /\ label[Node(t)] = SubSeq(job[t].word, 1, Len(path[t]) - 1)
           /\ Len(path[t]) <= Len(job[t].word) =>
                /\ Rune(t) \in Char /\ Rune(t) = job[t].word[Len(path[t])]
                /\ Append(label[Node(t)], Rune(t)) = SubSeq(job[t].word, 1, Len(path[t]))
                /\ Len(label[Node(t)]) = Len(path[t]) - 1
<1>1. /\ job[t].word \in Seq(Char) /\ path[t] \in Seq(NodeId) /\ Len(path[t]) \in 1 .. Len(job[t].word) + 1
      /\ Len(job[t].word) \in Nat
  BY InCall
<1>2. Len(path[t]) \in 1 .. Len(path[t])
  BY <1>1
<1>3. /\ (Tidy(job[t].word) => Node(t) \in Linked) /\ Node(t) \in NodeId /\ Node(t) < fresh
      /\ label[Node(t)] = SubSeq(job[t].word, 1, Len(path[t]) - 1)
  BY <1>2, WalkNodes DEF Node
<1>4. label[Node(t)] \in Seq(Char)
  BY <1>3 DEF Steady, TypeOK
<1>5. ASSUME Len(path[t]) <= Len(job[t].word)
      PROVE  /\ Rune(t) \in Char /\ Rune(t) = job[t].word[Len(path[t])]
             /\ Append(label[Node(t)], Rune(t)) = SubSeq(job[t].word, 1, Len(path[t]))
             /\ Len(label[Node(t)]) = Len(path[t]) - 1
  <2>1. Len(path[t]) \in 1 .. Len(job[t].word) /\ Len(path[t]) - 1 \in 0 .. Len(job[t].word)
    BY <1>1, <1>5
  <2>2. Rune(t) \in Char /\ Rune(t) = job[t].word[Len(path[t])]
    BY <1>1, <2>1, ElementOfSeq DEF Rune
  <2>3. Append(SubSeq(job[t].word, 1, Len(path[t]) - 1), job[t].word[Len(path[t])])
            = SubSeq(job[t].word, 1, Len(path[t]))
    BY <1>1, <2>1, NextBeginning
  <2>4. Append(label[Node(t)], Rune(t)) = SubSeq(job[t].word, 1, Len(path[t]))
    BY <1>3, <2>2, <2>3, Zenon
  <2>5. Len(SubSeq(job[t].word, 1, Len(path[t]) - 1)) = Len(path[t]) - 1
    BY <1>1, <2>1, Beginning
  <2> QED
    BY <1>3, <2>2, <2>4, <2>5
<1> QED
  BY <1>3, <1>4, <1>5

\* The node a walk comes to next.
LEMMA NextNode ==
    ASSUME NEW p, Steady(p), NEW t \in Thread, job[t].op # "none", Len(path[t]) <= Len(job[t].word), Kid(t) # None
    PROVE  /\ Kid(t) \in NodeId /\ Kid(t) # Root /\ Kid(t) < fresh
           /\ label[Kid(t)] = SubSeq(job[t].word, 1, Len(path[t]))
           /\ Tidy(label[Kid(t)]) <=> Tidy(job[t].word)
           /\ Tidy(job[t].word) => Kid(t) \in Linked
<1>1. Node(t) \in NodeId /\ Rune(t) \in Char /\ Append(label[Node(t)], Rune(t)) = SubSeq(job[t].word, 1, Len(path[t]))
  BY WalkEnd
<1>2. TypeOK
  BY DEF Steady
<1>3. /\ Kid(t) \in NodeId /\ Kid(t) # Root /\ Kid(t) < fresh
      /\ label[Kid(t)] = SubSeq(job[t].word, 1, Len(path[t]))
      /\ Tidy(label[Kid(t)]) => Kid(t) \in Linked
  BY <1>1, <1>2, KidFacts DEF Kid
<1>4. job[t].word \in Seq(Char) /\ Len(path[t]) \in 1 .. Len(job[t].word)
  BY InCall
<1>5. Tidy(label[Kid(t)]) <=> Tidy(job[t].word)
  BY <1>3, <1>4, TidyPart
<1> QED
  BY <1>3, <1>5

\* Walks that share the edge t is at are walks along words that begin alike.
LEMMA SharedEdge ==
    ASSUME NEW p, Steady(p), NEW t \in Thread, job[t].op # "none", Len(path[t]) <= Len(job[t].word),
           NEW u \in Thread, job[u].op # "none", NEW k \in 1 .. Len(path[u]), k <= Len(job[u].word),
           path[u][k] = Node(t), job[u].word[k] = Rune(t)
    PROVE  job[u].word[1] = job[t].word[1] /\ k = Len(path[t])
<1>1. /\ job[t].word \in Seq(Char) /\ Len(path[t]) \in 1 .. Len(job[t].word) + 1
      /\ job[u].word \in Seq(Char) /\ Len(path[u]) \in 1 .. Len(job[u].word) + 1
      /\ Len(job[t].word) \in Nat /\ Len(job[u].word) \in Nat
  BY InCall
<1>2. k \in 1 .. Len(job[u].word) /\ k \in 0 .. Len(job[u].word) /\ Len(path[t]) \in 0 .. Len(job[t].word)
  BY <1>1
<1>3. Append(SubSeq(job[u].word, 1, k - 1), job[u].word[k]) = SubSeq(job[u].word, 1, k)
  BY <1>1, <1>2, NextBeginning
<1>4. label[Node(t)] = SubSeq(job[u].word, 1, k - 1)
  BY WalkNodes
<1>5. Append(label[Node(t)], Rune(t)) = SubSeq(job[t].word, 1, Len(path[t]))
  BY WalkEnd
<1>6. SubSeq(job[u].word, 1, k) = SubSeq(job[t].word, 1, Len(path[t]))
  BY <1>3, <1>4, <1>5, Zenon
<1>7. k = Len(path[t]) /\ \A i \in 1 .. Len(path[t]) : job[u].word[i] = job[t].word[i]
  BY <1>1, <1>2, <1>6, SameBeginning
<1> QED
  BY <1>2, <1>7

-----------------------------------------------------------------------------
(* Below the first rune of a word that is deleted there is only this word *)

\* On the way of v, added where a word with its first rune is deleted, every
\* node has one child at most: the next of v.
LEMMA OneChild ==
    ASSUME NEW p \in Scripts, Steady(p), NEW t \in Thread, NEW w \in Seq(Char), Tidy(w),
           Does(p, t, "del", w), NEW v \in Seq(Char), AddedIn(p, v), v[1] = w[1],
           NEW n \in NodeId, NEW c \in Char, kids[n][c] # None,
           NEW j \in 1 .. Len(v), label[n] = SubSeq(v, 1, j)
    PROVE  j < Len(v) /\ c = v[j + 1]
<1>1. PICK u \in Thread : v # << >> /\ Does(p, u, "add", v)
  BY DEF AddedIn
<1>2. Sourced(p)
  BY DEF Steady
<1>3. Len(v) \in Nat /\ j \in 0 .. Len(v)
  BY LenProperties
<1>4. label[n] \in Seq(Char) /\ Len(label[n]) = j /\ label[n][1] = v[1]
  BY <1>3, Beginning
<1>5. PICK x \in Seq(Char) : /\ AddedIn(p, x) /\ Len(label[n]) < Len(x)
                             /\ Append(label[n], c) = SubSeq(x, 1, Len(label[n]) + 1)
  BY <1>2 DEF Sourced
<1>6. j < Len(x) /\ Append(label[n], c) = SubSeq(x, 1, j + 1) /\ Len(x) \in Nat
  BY <1>4, <1>5, LenProperties
<1>7. j + 1 \in 0 .. Len(x) /\ 1 \in 1 .. j + 1 /\ j + 1 \in 1 .. j + 1 /\ 1 \in 1 .. j
  BY <1>6
<1>8. \A i \in 1 .. j + 1 : SubSeq(x, 1, j + 1)[i] = x[i]
  BY <1>7, Beginning
<1>9. Append(label[n], c)[1] = label[n][1] /\ Append(label[n], c)[j + 1] = c
  BY <1>4, <1>7, OneMore
<1>10. x[1] = v[1] /\ x[j + 1] = c
  BY <1>4, <1>6, <1>7, <1>8, <1>9
<1>11. x = v
  <2>1. x[1] = w[1]
    BY <1>10
  <2> QED
    BY <1>1, <1>5, <2>1, ApartFacts
<1> QED
  BY <1>6, <1>10, <1>11

\* And a word ends there only at the end of a deleted word.
LEMMA OneEnd ==
    ASSUME NEW p \in Scripts, Steady(p), NEW t \in Thread, NEW w \in Seq(Char), Tidy(w),
           Does(p, t, "del", w), NEW n \in NodeId, end[n],
           NEW j \in 1 .. Len(w), label[n] = SubSeq(w, 1, j)
    PROVE  j = Len(w) /\ label[n] = w /\ AddedIn(p, w)
<1>1. AddedIn(p, label[n])
  BY DEF Steady, Sourced
<1>2. PICK u \in Thread : label[n] # << >> /\ Does(p, u, "add", label[n])
  BY <1>1 DEF AddedIn
<1>3. Len(w) \in Nat /\ j \in 0 .. Len(w) /\ 1 \in 1 .. j
  BY LenProperties
<1>4. label[n] \in Seq(Char) /\ Len(label[n]) = j /\ label[n][1] = w[1]
  BY <1>3, Beginning
<1>5. Len(w) <= Len(label[n])
  BY <1>2, <1>4, ApartFacts
<1>6. j = Len(w)
  BY <1>3, <1>4, <1>5
<1>7. label[n] = w
  BY <1>6, SubSeqFull
<1> QED
  BY <1>1, <1>6, <1>7

\* Del finds a node where a word ends only at the end of its own word, which
\* has nothing below.
LEMMA FoundFacts ==
    ASSUME NEW p \in Scripts, Steady(p), NEW t \in Thread, job[t].op = "del", Tidy(job[t].word),
           Kid(t) # None, end[Kid(t)]
    PROVE  /\ Len(path[t]) = Len(job[t].word) /\ AddedIn(p, job[t].word)
           /\ \A c \in Char : kids[Kid(t)][c] = None
<1>1. /\ job[t].word \in Seq(Char) /\ job[t].word # << >> /\ Len(path[t]) \in 1 .. Len(job[t].word)
      /\ Len(job[t].word) \in Nat \ {0}
  BY InCall
<1>2. Kid(t) \in NodeId /\ label[Kid(t)] = SubSeq(job[t].word, 1, Len(path[t]))
  BY <1>1, NextNode
<1>3. Does(p, t, "del", job[t].word)
  BY DEF Steady, Listed
<1>4. Len(path[t]) = Len(job[t].word) /\ label[Kid(t)] = job[t].word /\ AddedIn(p, job[t].word)
  BY <1>1, <1>2, <1>3, OneEnd
<1>5. ASSUME NEW c \in Char, kids[Kid(t)][c] # None PROVE FALSE
  <2>1. Len(path[t]) < Len(job[t].word)
    BY <1>1, <1>2, <1>3, <1>4, <1>5, OneChild
  <2> QED
    BY <1>1, <1>4, <2>1
<1> QED
  BY <1>4, <1>5

\* On the way up the node to delete is an only child, except of the root, and
\* a word ends there only if it is the last of the word.
LEMMA UpFacts ==
    ASSUME NEW p \in Scripts, Steady(p), NEW t \in Thread, job[t].op = "delUp", Tidy(job[t].word)
    PROVE  /\ Kid(t) # None /\ Kid(t) \in NodeId /\ Kid(t) \in Linked /\ Kid(t) # Root
           /\ label[Kid(t)] = SubSeq(job[t].word, 1, Len(path[t]))
           /\ \A c \in Char : kids[Kid(t)][c] = None
           /\ Len(path[t]) > 1 => \A c \in Char : kids[Node(t)][c] # None => c = Rune(t)
           /\ end[Kid(t)] => Len(path[t]) = Len(job[t].word)
<1>1. /\ job[t].word \in Seq(Char) /\ job[t].word # << >> /\ Len(path[t]) \in 1 .. Len(job[t].word)
      /\ Len(job[t].word) \in Nat \ {0}
  BY InCall
<1>2. Kid(t) # None /\ \A c \in Char : kids[Kid(t)][c] = None
  BY DEF Steady, Bare
<1>3. /\ Kid(t) \in NodeId /\ Kid(t) \in Linked /\ Kid(t) # Root
      /\ label[Kid(t)] = SubSeq(job[t].word, 1, Len(path[t]))
  BY <1>1, <1>2, NextNode
<1>4. Does(p, t, "del", job[t].word) /\ AddedIn(p, job[t].word)
  BY Zenon DEF Steady, Listed
<1>5. ASSUME Len(path[t]) > 1, NEW c \in Char, kids[Node(t)][c] # None PROVE c = Rune(t)
  <2>1. /\ Node(t) \in NodeId /\ label[Node(t)] = SubSeq(job[t].word, 1, Len(path[t]) - 1)
        /\ Rune(t) = job[t].word[Len(path[t])]
    BY <1>1, WalkEnd
  <2>2. Len(path[t]) - 1 \in 1 .. Len(job[t].word) /\ (Len(path[t]) - 1) + 1 = Len(path[t])
    BY <1>1, <1>5
  <2>3. c = job[t].word[(Len(path[t]) - 1) + 1]
    BY <1>1, <1>4, <1>5, <2>1, <2>2, OneChild
  <2> QED
    BY <2>1, <2>2, <2>3
<1>6. end[Kid(t)] => Len(path[t]) = Len(job[t].word)
  BY <1>1, <1>3, <1>4, OneEnd
<1> QED
  BY <1>2, <1>3, <1>5, <1>6

-----------------------------------------------------------------------------
(* Steps that leave the trie alone *)

\* A step of t leaves the other threads where they are.
Others(t) == \A u \in Thread \ {t} : script'[u] = script[u] /\ job'[u] = job[u] /\ path'[u] = path[u]

\* TypeOK for what threads keep.
ThreadTypes ==
    /\ script \in [Thread -> Seq(Job)]
    /\ job \in [Thread -> [op : {"none", "add", "del", "delUp"}, word : Seq(Char)]]
    /\ path \in [Thread -> Seq(NodeId)]

\* The invariant for one thread.
Mine(p, t) == Listed(p, t) /\ Walked(t) /\ Bare(t)

\* A walk is no longer than its word.
LEMMA WalksShort ==
    ASSUME ThreadTypes', \A u \in Thread : Walked(u)'
    PROVE  \A u \in Thread : Len(path'[u]) <= Len(job'[u].word) + 1
<1>1. SUFFICES ASSUME NEW u \in Thread PROVE Len(path'[u]) <= Len(job'[u].word) + 1
  OBVIOUS
<1>2. Walked(u)' /\ job'[u] \in [op : {"none", "add", "del", "delUp"}, word : Seq(Char)]
  BY DEF ThreadTypes
<1>3. CASE job'[u].op = "none"
  BY <1>2, <1>3 DEF Walked, NoJob
<1>4. CASE job'[u].op # "none"
  BY <1>2, <1>4, LenProperties DEF Walked, Walk
<1> QED
  BY <1>3, <1>4

\* With the trie as it was, only t's own part of the invariant is to be shown.
LEMMA SameHeap ==
    ASSUME NEW p, Steady(p), NEW t \in Thread, UNCHANGED heap, Others(t), ThreadTypes', Mine(p, t)'
    PROVE  Steady(p)' /\ Held' = Held
<1>1. UNCHANGED <<kids, end, label, fresh>>
  BY DEF heap
<1>2. Linked' = Linked
  BY <1>1 DEF Linked, Kids
<1>3. Named' /\ Whole'
  BY <1>1, <1>2 DEF Steady, Named, Whole
<1>4. Sourced(p)'
  BY <1>1 DEF Steady, Sourced
<1>5. Held' = Held
  BY <1>1, <1>2 DEF Held
<1>6. ASSUME NEW u \in Thread, u # t PROVE Mine(p, u)'
  <2>1. Listed(p, u) /\ Walked(u) /\ Bare(u)
    BY DEF Steady
  <2>2. script'[u] = script[u] /\ job'[u] = job[u] /\ path'[u] = path[u]
    BY <1>6 DEF Others
  <2>3. Listed(p, u)'
    BY <2>1, <2>2 DEF Listed
  <2>4. Walked(u)'
    BY <1>1, <2>1, <2>2 DEF Walked, Walk
  <2>5. Bare(u)'
    BY <1>1, <2>1, <2>2 DEF Bare, Kid, Node, Rune
  <2> QED
    BY <2>3, <2>4, <2>5 DEF Mine
<1>7. \A u \in Thread : Mine(p, u)'
  BY <1>6
<1>8. \A u \in Thread : Len(path'[u]) <= Len(job'[u].word) + 1
  BY <1>7, WalksShort DEF Mine
<1>9. TypeOK'
  <2>1. Tree' /\ Blank'
    BY <1>1 DEF Steady, TypeOK, Tree, Blank
  <2> QED
    BY <1>1, <1>8, <2>1 DEF TypeOK, ThreadTypes, Steady
<1> QED
  BY <1>3, <1>4, <1>5, <1>7, <1>9 DEF Steady, Mine

\* A call that returns leaves nothing to say of its thread.
LEMMA Returned ==
    ASSUME NEW p, Steady(p), NEW t \in Thread, Return(t), UNCHANGED script
    PROVE  /\ Others(t) /\ Mine(p, t)' /\ job'[t] = NoJob
           /\ script' \in [Thread -> Seq(Job)]
           /\ job' \in [Thread -> [op : {"none", "add", "del", "delUp"}, word : Seq(Char)]]
           /\ path' \in [Thread -> Seq(NodeId)]
<1>1. ThreadTypes
  BY DEF Steady, TypeOK, ThreadTypes
<1>2. NoJob \in [op : {"none", "add", "del", "delUp"}, word : Seq(Char)] /\ << >> \in Seq(NodeId)
  BY EmptySeq DEF NoJob
<1>3. /\ job' \in [Thread -> [op : {"none", "add", "del", "delUp"}, word : Seq(Char)]]
      /\ path' \in [Thread -> Seq(NodeId)] /\ script' \in [Thread -> Seq(Job)]
      /\ job'[t] = NoJob /\ path'[t] = << >>
      /\ \A u \in Thread \ {t} : job'[u] = job[u] /\ path'[u] = path[u]
  BY <1>1, <1>2 DEF Return, ThreadTypes
<1>4. Listed(p, t)
  BY DEF Steady
<1>5. job'[t].op = "none"
  BY <1>3 DEF NoJob
<1>6. Listed(p, t)'
  BY <1>4, <1>5 DEF Listed
<1>7. Walked(t)' /\ Bare(t)'
  BY <1>3, <1>5 DEF Walked, Bare
<1> QED
  BY <1>3, <1>6, <1>7 DEF Others, Mine

\* A walk goes on to the next node.
LEMMA LongerWalk ==
    ASSUME NEW p, Steady(p), NEW t \in Thread, job[t].op # "none", Len(path[t]) <= Len(job[t].word), Kid(t) # None
    PROVE  /\ Append(path[t], Kid(t)) \in Seq(NodeId) /\ Len(Append(path[t], Kid(t))) = Len(path[t]) + 1
           /\ Walk(Append(path[t], Kid(t)), job[t].word)
<1>1. /\ job[t].word \in Seq(Char) /\ path[t] \in Seq(NodeId) /\ Len(path[t]) \in 1 .. Len(job[t].word)
      /\ Walk(path[t], job[t].word) /\ Len(job[t].word) \in Nat
  BY InCall
<1>2. Kid(t) \in NodeId /\ Kid(t) < fresh /\ label[Kid(t)] = SubSeq(job[t].word, 1, Len(path[t]))
  BY NextNode
<1>3. PICK q \in Seq(NodeId) : q = Append(path[t], Kid(t))
  BY <1>1, <1>2, AppendProperties
<1>4. /\ Len(q) = Len(path[t]) + 1 /\ q[Len(path[t]) + 1] = Kid(t)
      /\ \A k \in 1 .. Len(path[t]) : q[k] = path[t][k]
  BY <1>1, <1>2, <1>3, AppendProperties
<1>5. q[1] = Root /\ Len(q) \in 1 .. Len(job[t].word) + 1
  BY <1>1, <1>4 DEF Walk
<1>6. ASSUME NEW k \in 1 .. Len(q) PROVE q[k] < fresh /\ label[q[k]] = SubSeq(job[t].word, 1, k - 1)
  <2>1. CASE k = Len(q)
    <3>1. k - 1 = Len(path[t]) /\ q[k] = Kid(t)
      BY <1>1, <1>4, <2>1
    <3> QED
      BY <1>2, <3>1
  <2>2. CASE k # Len(q)
    <3>1. k \in 1 .. Len(path[t])
      BY <1>1, <1>4, <2>2
    <3> QED
      BY <1>1, <1>4, <3>1 DEF Walk
  <2> QED
    BY <2>1, <2>2
<1>7. ASSUME Tidy(job[t].word), NEW k \in 1 .. Len(q) - 1 PROVE kids[q[k]][job[t].word[k]] = q[k + 1]
  <2>1. CASE k = Len(path[t])
    <3>1. q[k] = Node(t) /\ job[t].word[k] = Rune(t) /\ q[k + 1] = Kid(t)
      BY <1>1, <1>4, <2>1 DEF Node, Rune
    <3> QED
      BY <3>1 DEF Kid
  <2>2. CASE k # Len(path[t])
    <3>1. k \in 1 .. Len(path[t]) - 1 /\ k \in 1 .. Len(path[t]) /\ k + 1 \in 1 .. Len(path[t])
      BY <1>1, <1>4, <2>2
    <3> QED
      BY <1>1, <1>4, <1>7, <3>1 DEF Walk
  <2> QED
    BY <2>1, <2>2
<1>8. Walk(q, job[t].word)
  BY <1>5, <1>6, <1>7 DEF Walk
<1> QED
  BY <1>3, <1>4, <1>8

\* Add and Del walk on through a node that is there (trie.go:46, 72).
LEMMA GoesOn ==
    ASSUME NEW p, Steady(p), NEW t \in Thread, job[t].op \in {"add", "del"}, Len(path[t]) <= Len(job[t].word),
           job[t].op = "del" => Len(path[t]) < Len(job[t].word),
           Kid(t) # None, path' = [path EXCEPT ![t] = Append(@, Kid(t))],
           UNCHANGED <<heap, script, job>>
    PROVE  Steady(p)' /\ Held' = Held /\ Others(t)
<1>1. ThreadTypes /\ Listed(p, t)
  BY DEF Steady, TypeOK, ThreadTypes
<1>2. /\ Append(path[t], Kid(t)) \in Seq(NodeId) /\ Len(Append(path[t], Kid(t))) = Len(path[t]) + 1
      /\ Walk(Append(path[t], Kid(t)), job[t].word)
  BY LongerWalk
<1>3. path' \in [Thread -> Seq(NodeId)] /\ path'[t] = Append(path[t], Kid(t))
  BY <1>1, <1>2 DEF ThreadTypes
<1>4. Others(t) /\ ThreadTypes'
  BY <1>1, <1>3 DEF Others, ThreadTypes
<1>5. Listed(p, t)'
  BY <1>1 DEF Listed
<1>6. Walked(t)'
  <2>1. Walk(path[t], job[t].word)'
    BY <1>2, <1>3 DEF Walk, heap
  <2>2. job[t].word # << >> /\ Len(path[t]) \in Nat /\ Len(job[t].word) \in Nat
    BY InCall
  <2>3. Len(path'[t]) = Len(path[t]) + 1
    BY <1>2, <1>3
  <2> QED
    BY <2>1, <2>2, <2>3 DEF Walked
<1>7. Bare(t)'
  BY DEF Bare
<1> QED
  BY <1>4, <1>5, <1>6, <1>7, SameHeap DEF Mine

\* A call begins (trie.go:35-63).
LEMMA CallSteady ==
    ASSUME NEW p, Steady(p), NEW t \in Thread, Call(t)
    PROVE  Steady(p)' /\ Held' = Held /\ Others(t)
<1>1. ThreadTypes /\ Listed(p, t) /\ Walked(t) /\ Bare(t)
  BY DEF Steady, TypeOK, ThreadTypes
<1>2. script[t] \in Seq(Job) /\ script[t] # << >>
  BY <1>1 DEF ThreadTypes, Call
<1>3. /\ Tail(script[t]) \in Seq(Job) /\ Head(script[t]) \in Job /\ Len(Tail(script[t])) = Len(script[t]) - 1
      /\ \A k \in 1 .. Len(Tail(script[t])) : Tail(script[t])[k] = script[t][k + 1]
  BY <1>2, HeadTailProperties, Zenon
<1>4. script' \in [Thread -> Seq(Job)] /\ script'[t] = Tail(script[t])
  BY <1>1, <1>3 DEF ThreadTypes, Call
<1>5. \A k \in DOMAIN script'[t] : Does(p, t, script'[t][k].op, script'[t][k].word)
  <2>1. SUFFICES ASSUME NEW k \in 1 .. Len(Tail(script[t]))
                 PROVE  Does(p, t, Tail(script[t])[k].op, Tail(script[t])[k].word)
    BY <1>3, <1>4, LenProperties
  <2>2. k + 1 \in DOMAIN script[t]
    BY <1>2, <1>3, LenProperties
  <2> QED
    BY <1>1, <1>3, <2>1, <2>2 DEF Listed
<1>6. CASE Head(script[t]).word = << >>
  <2>1. UNCHANGED <<job, path, heap>>
    BY <1>6 DEF Call
  <2>2. Others(t) /\ ThreadTypes'
    BY <1>1, <1>4, <2>1 DEF Others, ThreadTypes, Call
  <2>3. Listed(p, t)'
    BY <1>1, <1>5, <2>1 DEF Listed
  <2>4. Walked(t)' /\ Bare(t)'
    BY <1>1, <2>1 DEF Walked, Walk, Bare, Kid, Node, Rune, heap
  <2> QED
    BY <2>1, <2>2, <2>3, <2>4, SameHeap DEF Mine
<1>7. CASE Head(script[t]).word # << >>
  <2>1. PICK j \in Job : j = Head(script[t])
    BY <1>3
  <2>2. /\ job' = [job EXCEPT ![t] = j] /\ path' = [path EXCEPT ![t] = <<Root>>] /\ UNCHANGED heap
    BY <1>7, <2>1 DEF Call
  <2>3. /\ j.op \in {"add", "del"} /\ j.word \in Seq(Char) /\ j.word # << >> /\ Len(j.word) \in Nat \ {0}
        /\ j \in [op : {"none", "add", "del", "delUp"}, word : Seq(Char)]
    <3>1. j.op \in {"add", "del"} /\ j.word \in Seq(Char) /\ j.word # << >>
      BY <1>7, <2>1 DEF Job
    <3>2. j \in [op : {"none", "add", "del", "delUp"}, word : Seq(Char)]
      BY DEF Job
    <3> QED
      BY <3>1, <3>2, EmptySeq
  <2>4. <<Root>> \in Seq(NodeId) /\ Len(<<Root>>) = 1 /\ <<Root>>[1] = Root
    BY TrieAssumption DEF Root, NodeId
  <2>5. /\ job' \in [Thread -> [op : {"none", "add", "del", "delUp"}, word : Seq(Char)]]
        /\ path' \in [Thread -> Seq(NodeId)]
        /\ job'[t] = j /\ path'[t] = <<Root>>
    BY <1>1, <2>2, <2>3, <2>4 DEF ThreadTypes
  <2>6. Others(t) /\ ThreadTypes'
    BY <1>1, <1>4, <2>2, <2>5 DEF Others, ThreadTypes, Call
  <2>7. Does(p, t, j.op, j.word)
    <3>1. 1 \in DOMAIN script[t] /\ Head(script[t]) = script[t][1]
      BY <1>2, EmptySeq, LenProperties
    <3> QED
      BY <1>1, <2>1, <3>1 DEF Listed
  <2>8. Listed(p, t)'
    BY <1>5, <2>3, <2>5, <2>7 DEF Listed
  <2>9. Walked(t)'
    <3>1. label'[Root] = SubSeq(j.word, 1, 0)
      <4>1. SubSeq(j.word, 1, 0) = << >>
        BY SubSeqEmpty
      <4> QED
        BY <2>2, <4>1 DEF Steady, TypeOK, heap
    <3>2. ASSUME NEW q, q = <<Root>> PROVE Walk(q, j.word)'
      <4>1. Len(q) = 1 /\ q[1] = Root
        BY <2>4, <3>2
      <4>2. \A k \in 1 .. Len(q) : k = 1 /\ k - 1 = 0
        BY <4>1
      <4>3. \A k \in 1 .. Len(q) : q[k] < fresh' /\ label'[q[k]] = SubSeq(j.word, 1, k - 1)
        BY <2>2, <3>1, <4>1, <4>2, TrieAssumption DEF Steady, TypeOK, Root, heap
      <4> QED
        BY <2>3, <4>1, <4>3 DEF Walk
    <3>3. Walk(path[t], job[t].word)'
      BY <2>5, <3>2
    <3> QED
      BY <2>3, <2>4, <2>5, <3>3 DEF Walked
  <2>10. Bare(t)'
    BY <2>3, <2>5 DEF Bare
  <2> QED
    BY <2>2, <2>6, <2>8, <2>9, <2>10, SameHeap DEF Mine
<1> QED
  BY <1>6, <1>7

\* A Del on its way up is still a call.
LEMMA RecordUp ==
    ASSUME NEW r \in [op : {"none", "add", "del", "delUp"}, word : Seq(Char)]
    PROVE  /\ [r EXCEPT !.op = "delUp"] \in [op : {"none", "add", "del", "delUp"}, word : Seq(Char)]
           /\ [r EXCEPT !.op = "delUp"].op = "delUp" /\ [r EXCEPT !.op = "delUp"].word = r.word
  OBVIOUS

\* Del finds its word and turns round (trie.go:76).
LEMMA DelFoundSteady ==
    ASSUME NEW p \in Scripts, Steady(p), NEW t \in Thread, DelFound(t)
    PROVE  Steady(p)' /\ Held' = Held /\ Others(t)
<1>1. ThreadTypes /\ Listed(p, t) /\ Walked(t)
  BY DEF Steady, TypeOK, ThreadTypes
<1>2. /\ job[t].op = "del" /\ Kid(t) # None /\ end[Kid(t)] /\ job' = [job EXCEPT ![t].op = "delUp"]
      /\ UNCHANGED <<heap, script, path>>
  BY DEF DelFound
<1>3. job[t] \in [op : {"none", "add", "del", "delUp"}, word : Seq(Char)]
  BY <1>1 DEF ThreadTypes
<1>4. PICK j \in [op : {"none", "add", "del", "delUp"}, word : Seq(Char)] :
          j = [job[t] EXCEPT !.op = "delUp"] /\ j.op = "delUp" /\ j.word = job[t].word
  BY <1>3, RecordUp
<1>5. job' = [job EXCEPT ![t] = j]
  BY <1>2, <1>4
<1>6. job' \in [Thread -> [op : {"none", "add", "del", "delUp"}, word : Seq(Char)]] /\ job'[t] = j
  BY <1>1, <1>5 DEF ThreadTypes
<1>7. Others(t) /\ ThreadTypes'
  BY <1>1, <1>2, <1>5, <1>6 DEF Others, ThreadTypes
<1>8. Tidy(job[t].word) => AddedIn(p, job[t].word) /\ \A c \in Char : kids[Kid(t)][c] = None
  BY <1>2, FoundFacts
<1>9. Listed(p, t)'
  BY <1>1, <1>2, <1>4, <1>6, <1>8 DEF Listed
<1>10. Walked(t)'
  <2>1. Walk(path[t], job[t].word) /\ job[t].word # << >> /\ Len(path[t]) <= Len(job[t].word)
    BY <1>2, InCall
  <2>2. path'[t] = path[t] /\ job'[t].word = job[t].word /\ job'[t].op = "delUp"
    BY <1>2, <1>4, <1>6
  <2>3. Walk(path[t], job[t].word)'
    BY <1>2, <2>1, <2>2 DEF Walk, heap
  <2> QED
    BY <2>1, <2>2, <2>3 DEF Walked
<1>11. Bare(t)'
  <2>1. Kid(t)' = Kid(t)
    BY <1>2, <1>4, <1>6 DEF Kid, Node, Rune, heap
  <2> QED
    BY <1>2, <1>4, <1>6, <1>8, <2>1 DEF Bare, heap
<1> QED
  BY <1>2, <1>7, <1>9, <1>10, <1>11, SameHeap DEF Mine

\* Del does not find its word (trie.go:83).
LEMMA DelMissSteady ==
    ASSUME NEW p, Steady(p), NEW t \in Thread, DelMiss(t)
    PROVE  Steady(p)' /\ Held' = Held /\ Others(t) /\ job'[t] = NoJob
<1>1. Return(t) /\ UNCHANGED <<heap, script>>
  BY DEF DelMiss
<1>2. ThreadTypes' /\ Others(t) /\ Mine(p, t)' /\ job'[t] = NoJob
  BY <1>1, Returned DEF Steady, TypeOK, ThreadTypes
<1> QED
  BY <1>1, <1>2, SameHeap

-----------------------------------------------------------------------------
(* Steps that change the trie *)

\* A walk stays one while its nodes keep their runes and its edges stay.
LEMMA KeptWalk ==
    ASSUME NEW q, NEW w, Walk(q, w),
           \A k \in 1 .. Len(q) : q[k] < fresh' /\ label'[q[k]] = label[q[k]],
           Tidy(w) => \A k \in 1 .. Len(q) - 1 : kids'[q[k]][w[k]] = kids[q[k]][w[k]]
    PROVE  Walk(q, w)'
  BY DEF Walk

\* Add sets End (trie.go:51).
LEMMA AddEndSteady ==
    ASSUME NEW p, Steady(p), NEW t \in Thread, AddEnd(t)
    PROVE  /\ Steady(p)' /\ Others(t) /\ job'[t] = NoJob
           /\ Held' = IF Tidy(job[t].word) THEN Held \cup {job[t].word} ELSE Held
<1>1. /\ job[t].op = "add" /\ Len(path[t]) > Len(job[t].word) /\ end' = [end EXCEPT ![Node(t)] = TRUE]
      /\ Return(t) /\ UNCHANGED <<kids, label, fresh, script>>
  BY DEF AddEnd, AtEnd
<1>2. /\ job[t].word \in Seq(Char) /\ job[t].word # << >> /\ Len(job[t].word) \in Nat \ {0}
      /\ Len(path[t]) \in 1 .. Len(job[t].word) + 1
  BY <1>1, InCall
<1>3. Len(path[t]) - 1 = Len(job[t].word)
  BY <1>1, <1>2
<1>4. /\ (Tidy(job[t].word) => Node(t) \in Linked) /\ Node(t) \in NodeId /\ Node(t) < fresh
      /\ label[Node(t)] = SubSeq(job[t].word, 1, Len(path[t]) - 1)
  BY <1>1, WalkEnd
<1>5. label[Node(t)] = job[t].word
  BY <1>2, <1>3, <1>4, SubSeqFull
<1>6. TypeOK /\ Node(t) # Root
  BY <1>2, <1>5 DEF Steady, TypeOK
<1>7. AddedIn(p, job[t].word)
  BY <1>1, <1>2 DEF Steady, Listed, AddedIn
<1>8. /\ end' \in [NodeId -> BOOLEAN]
      /\ \A n \in NodeId : end'[n] = IF n = Node(t) THEN TRUE ELSE end[n]
  BY <1>1, <1>6 DEF TypeOK
<1>9. Linked' = Linked
  BY <1>1 DEF Linked, Kids
<1>10. Held' = IF Tidy(job[t].word) THEN Held \cup {job[t].word} ELSE Held
  <2>1. Linked \subseteq NodeId
    BY <1>6, LinkedMade
  <2>2. CASE Tidy(job[t].word)
    BY <1>1, <1>4, <1>5, <1>8, <1>9, <2>1, <2>2 DEF Held
  <2>3. CASE ~Tidy(job[t].word)
    <3>1. Node(t) \notin Linked
      BY <1>5, <1>6, <2>3 DEF Linked
    <3>2. \A m \in Linked : end'[m] = end[m]
      BY <1>8, <2>1, <3>1
    <3> QED
      BY <1>1, <1>9, <2>3, <3>2 DEF Held
  <2> QED
    BY <2>2, <2>3
<1>11. Named' /\ Whole'
  BY <1>1, <1>9 DEF Steady, Named, Whole
<1>12. Sourced(p)'
  <2>1. Sourced(p)
    BY DEF Steady
  <2>2. \A n \in NodeId : end'[n] => AddedIn(p, label[n])
    BY <1>5, <1>7, <1>8, <2>1 DEF Sourced
  <2> QED
    BY <1>1, <2>1, <2>2 DEF Sourced
<1>13. ThreadTypes' /\ Others(t) /\ Mine(p, t)' /\ job'[t] = NoJob
  BY <1>1, Returned DEF ThreadTypes
<1>14. ASSUME NEW u \in Thread, u # t PROVE Mine(p, u)'
  <2>1. Listed(p, u) /\ Walked(u) /\ Bare(u)
    BY DEF Steady
  <2>2. script'[u] = script[u] /\ job'[u] = job[u] /\ path'[u] = path[u]
    BY <1>13, <1>14 DEF Others
  <2>3. Listed(p, u)'
    BY <2>1, <2>2 DEF Listed
  <2>4. Walked(u)'
    BY <1>1, <2>1, <2>2 DEF Walked, Walk
  <2>5. Bare(u)'
    BY <1>1, <2>1, <2>2 DEF Bare, Kid, Node, Rune
  <2> QED
    BY <2>3, <2>4, <2>5 DEF Mine
<1>15. \A u \in Thread : Mine(p, u)'
  BY <1>13, <1>14
<1>16. TypeOK'
  <2>1. \A u \in Thread : Len(path'[u]) <= Len(job'[u].word) + 1
    BY <1>13, <1>15, WalksShort DEF Mine
  <2>2. Root \in NodeId
    BY TrieAssumption DEF Root, NodeId
  <2>3. ~end'[Root]
    BY <1>6, <1>8, <2>2 DEF TypeOK
  <2>4. \A n \in fresh .. MaxNode : ~end'[n] /\ \A c \in Char : kids[n][c] = None
    <3>1. SUFFICES ASSUME NEW n \in fresh .. MaxNode PROVE ~end'[n] /\ \A c \in Char : kids[n][c] = None
      OBVIOUS
    <3>2. n \in NodeId /\ n # Node(t)
      BY <1>4, <1>6, TrieAssumption DEF NodeId, TypeOK, Root
    <3>3. ~end[n] /\ \A c \in Char : kids[n][c] = None
      BY <1>6 DEF TypeOK, Blank
    <3> QED
      BY <1>8, <3>2, <3>3
  <2>5. Tree'
    <3>1. Tree /\ UNCHANGED <<kids, label, fresh>>
      BY <1>1, <1>6 DEF TypeOK
    <3> QED
      BY <3>1 DEF Tree
  <2>6. Blank'
    BY <1>1, <2>4 DEF Blank
  <2> QED
    BY <1>1, <1>6, <1>8, <1>13, <2>1, <2>3, <2>5, <2>6 DEF TypeOK, ThreadTypes
<1> QED
  BY <1>10, <1>11, <1>12, <1>13, <1>15, <1>16 DEF Steady, Mine

\* What storing a new node does, point by point.
LEMMA StoreEffect ==
    ASSUME TypeOK, NEW n \in NodeId, NEW c \in Char, fresh \in NodeId,
           kids' = [kids EXCEPT ![n][c] = fresh], label' = [label EXCEPT ![fresh] = Append(label[n], c)]
    PROVE  /\ kids' \in [NodeId -> [Char -> NodeId \cup {None}]]
           /\ \A m \in NodeId, d \in Char : kids'[m][d] = IF m = n /\ d = c THEN fresh ELSE kids[m][d]
           /\ label' \in [NodeId -> Seq(Char)]
           /\ \A m \in NodeId : label'[m] = IF m = fresh THEN Append(label[n], c) ELSE label[m]
<1>1. kids \in [NodeId -> [Char -> NodeId \cup {None}]] /\ label \in [NodeId -> Seq(Char)]
  BY DEF TypeOK
<1>2. Append(label[n], c) \in Seq(Char)
  BY <1>1, OneMore
<1>3. PICK x \in NodeId \cup {None} : x = fresh
  OBVIOUS
<1>4. PICK l \in Seq(Char) : l = Append(label[n], c)
  BY <1>2
<1>5. /\ kids' \in [NodeId -> [Char -> NodeId \cup {None}]]
      /\ \A m \in NodeId, d \in Char : kids'[m][d] = IF m = n /\ d = c THEN fresh ELSE kids[m][d]
  BY <1>1, <1>3
<1>6. /\ label' \in [NodeId -> Seq(Char)]
      /\ \A m \in NodeId : label'[m] = IF m = fresh THEN l ELSE label[m]
  BY <1>1, <1>4
<1> QED
  BY <1>4, <1>5, <1>6

\* Add stores a new node (trie.go:46): nobody deletes what it is stored below.
LEMMA StoreSteady ==
    ASSUME NEW p \in Scripts, Steady(p), NEW t \in Thread, AddNode(t), Kid(t) = None
    PROVE  Steady(p)' /\ Held' = Held /\ Others(t)
<1> DEFINE n == Node(t)
           c == Rune(t)
<1>1. /\ job[t].op = "add" /\ ~(Len(path[t]) > Len(job[t].word)) /\ fresh \in NodeId
      /\ kids' = [kids EXCEPT ![n][c] = fresh] /\ label' = [label EXCEPT ![fresh] = Append(label[n], c)]
      /\ fresh' = fresh + 1 /\ path' = [path EXCEPT ![t] = Append(@, fresh)]
      /\ UNCHANGED <<end, script, job>>
  BY DEF AddNode, AtEnd
<1>2. /\ job[t].word \in Seq(Char) /\ job[t].word # << >> /\ Len(job[t].word) \in Nat
      /\ path[t] \in Seq(NodeId) /\ Len(path[t]) \in 1 .. Len(job[t].word) /\ Walk(path[t], job[t].word)
  BY <1>1, InCall
<1>3. /\ (Tidy(job[t].word) => n \in Linked) /\ n \in NodeId /\ n < fresh /\ c \in Char /\ label[n] \in Seq(Char)
      /\ Append(label[n], c) = SubSeq(job[t].word, 1, Len(path[t])) /\ Len(label[n]) = Len(path[t]) - 1
  BY <1>1, <1>2, WalkEnd
<1>4. TypeOK /\ Named /\ Whole /\ Sourced(p) /\ kids[n][c] = None
  BY DEF Steady, Kid
<1> HIDE DEF n, c
<1>5. /\ kids' \in [NodeId -> [Char -> NodeId \cup {None}]]
      /\ \A m \in NodeId, d \in Char : kids'[m][d] = IF m = n /\ d = c THEN fresh ELSE kids[m][d]
      /\ label' \in [NodeId -> Seq(Char)]
      /\ \A m \in NodeId : label'[m] = IF m = fresh THEN Append(label[n], c) ELSE label[m]
  BY <1>1, <1>3, <1>4, StoreEffect
<1>6. fresh \in Nat /\ fresh # None /\ n \in Nat /\ fresh # Root /\ Root \in NodeId /\ MaxNode \in Nat
  <2>1. fresh \in Root + 1 .. MaxNode + 1
    BY <1>4 DEF TypeOK
  <2> QED
    BY <1>1, <1>3, <2>1, TrieAssumption DEF NodeId, Root
<1>7. ~end[fresh] /\ \A d \in Char : kids[fresh][d] = None
  BY <1>1, <1>4, <1>6 DEF TypeOK, Blank, NodeId
<1>8. /\ \A x \in Linked : x \in Linked' /\ label'[x] = label[x] /\ x \in NodeId /\ x # fresh
      /\ \A x \in Linked' : x \in Linked \/ x = fresh
      /\ Tidy(Append(label[n], c)) => fresh \in Linked'
  <2>1. Kids(NodeId)' = Kids(NodeId) \cup {fresh}
    <3>1. ASSUME NEW x \in Kids(NodeId)' PROVE x \in Kids(NodeId) \cup {fresh}
      <4>1. PICK m \in NodeId, d \in Char : x = kids'[m][d] /\ x # None
        BY <3>1 DEF Kids
      <4> QED
        BY <1>5, <4>1 DEF Kids
    <3>2. ASSUME NEW x \in Kids(NodeId) PROVE x \in Kids(NodeId)'
      <4>1. PICK m \in NodeId, d \in Char : x = kids[m][d] /\ x # None
        BY <3>2 DEF Kids
      <4>2. x = kids'[m][d]
        BY <1>4, <1>5, <4>1
      <4> QED
        BY <4>1, <4>2 DEF Kids
    <3>3. fresh \in Kids(NodeId)'
      <4>1. kids'[n][c] = fresh
        BY <1>3, <1>5
      <4> QED
        BY <1>3, <1>6, <4>1 DEF Kids
    <3> QED
      BY <3>1, <3>2, <3>3
  <2>2. \A x \in Linked : label'[x] = label[x] /\ x \in NodeId /\ x # fresh
    BY <1>4, <1>5, <1>6, LinkedMade
  <2>3. \A x \in Kids(NodeId) : x # fresh /\ label'[x] = label[x]
    <3>1. SUFFICES ASSUME NEW m \in NodeId, NEW d \in Char, kids[m][d] # None
                   PROVE  kids[m][d] # fresh /\ label'[kids[m][d]] = label[kids[m][d]]
      BY DEF Kids
    <3>2. kids[m][d] \in NodeId /\ kids[m][d] < fresh
      BY <1>4, <3>1, KidFacts
    <3> QED
      BY <1>5, <1>6, <3>2
  <2>4. label'[fresh] = Append(label[n], c)
    BY <1>1, <1>5
  <2>5. \A x : x \in Linked <=> x = Root \/ (x \in Kids(NodeId) /\ Tidy(label[x]))
    BY DEF Linked
  <2>6. \A x : x \in Linked' <=> x = Root \/ (x \in Kids(NodeId)' /\ Tidy(label'[x]))
    BY DEF Linked
  <2> QED
    BY <2>1, <2>2, <2>3, <2>4, <2>5, <2>6
<1>9. \A m \in NodeId : m < fresh => m # fresh /\ label'[m] = label[m]
  BY <1>5, <1>6
<1>10. Held' = Held
  BY <1>1, <1>7, <1>8 DEF Held
<1>11. Named' /\ Whole'
  <2>1. ASSUME NEW m \in Root + 1 .. fresh' - 1 PROVE label'[m] # << >>
    <3>1. m \in NodeId /\ (m = fresh \/ m \in Root + 1 .. fresh - 1)
      BY <1>1, <1>6 DEF NodeId, Root
    <3>2. Append(label[n], c) # << >>
      BY <1>3, OneMore
    <3> QED
      BY <1>4, <1>5, <3>1, <3>2 DEF Named
  <2>2. ASSUME NEW m \in NodeId, NEW d \in Char, kids'[m][d] # None, Tidy(label'[m]) PROVE m \in Linked'
    <3>1. CASE m = n /\ d = c
      <4>1. label'[m] = label[n] /\ Tidy(label[n])
        BY <1>3, <1>9, <2>2, <3>1
      <4>2. Tidy(Append(label[n], c))
        BY <1>3, <4>1, TidyMore DEF Tidy
      <4>3. Tidy(job[t].word)
        BY <1>2, <1>3, <4>2, TidyPart
      <4> QED
        BY <1>3, <1>8, <3>1, <4>3
    <3>2. CASE ~(m = n /\ d = c)
      <4>1. kids[m][d] # None
        BY <1>5, <2>2, <3>2
      <4>2. m < fresh
        BY <1>4, <4>1, KidFacts
      <4>3. m \in Linked
        BY <1>4, <1>9, <2>2, <4>1, <4>2 DEF Whole
      <4> QED
        BY <1>8, <4>3
    <3> QED
      BY <3>1, <3>2
  <2>3. Named'
    BY <2>1 DEF Named
  <2>4. Whole'
    BY <2>2 DEF Whole
  <2> QED
    BY <2>3, <2>4
<1>12. Sourced(p)'
  <2>1. ASSUME NEW m \in NodeId, NEW d \in Char, kids'[m][d] # None
        PROVE  \E w \in Seq(Char) : /\ AddedIn(p, w) /\ Len(label'[m]) < Len(w)
                                    /\ Append(label'[m], d) = SubSeq(w, 1, Len(label'[m]) + 1)
    <3>1. CASE m = n /\ d = c
      <4>1. AddedIn(p, job[t].word)
        BY <1>1, <1>2 DEF Steady, Listed, AddedIn
      <4>2. label'[m] = label[n]
        BY <1>3, <1>9, <3>1
      <4>3. Len(label[n]) < Len(job[t].word) /\ Len(label[n]) + 1 = Len(path[t])
        BY <1>2, <1>3
      <4> QED
        BY <1>2, <1>3, <3>1, <4>1, <4>2, <4>3
    <3>2. CASE ~(m = n /\ d = c)
      <4>1. kids[m][d] # None
        BY <1>5, <2>1, <3>2
      <4>2. label'[m] = label[m]
        BY <1>4, <1>9, <4>1, KidFacts
      <4> QED
        BY <1>4, <4>1, <4>2 DEF Sourced
    <3> QED
      BY <3>1, <3>2
  <2>2. ASSUME NEW m \in NodeId, end'[m] PROVE AddedIn(p, label'[m])
    <3>1. m # fresh /\ end[m]
      BY <1>1, <1>7, <2>2
    <3> QED
      BY <1>4, <1>5, <3>1 DEF Sourced
  <2> QED
    BY <2>1, <2>2 DEF Sourced
<1>13. /\ path' \in [Thread -> Seq(NodeId)] /\ path'[t] = Append(path[t], fresh)
       /\ Append(path[t], fresh) \in Seq(NodeId) /\ Len(Append(path[t], fresh)) = Len(path[t]) + 1
       /\ \A k \in 1 .. Len(path[t]) : Append(path[t], fresh)[k] = path[t][k]
       /\ Append(path[t], fresh)[Len(path[t]) + 1] = fresh
  <2>1. /\ Append(path[t], fresh) \in Seq(NodeId) /\ Len(Append(path[t], fresh)) = Len(path[t]) + 1
        /\ \A k \in 1 .. Len(path[t]) : Append(path[t], fresh)[k] = path[t][k]
        /\ Append(path[t], fresh)[Len(path[t]) + 1] = fresh
    BY <1>1, <1>2, AppendProperties
  <2> QED
    BY <1>1, <1>4, <2>1 DEF TypeOK
<1>14. ThreadTypes' /\ Others(t)
  BY <1>1, <1>4, <1>13 DEF ThreadTypes, Others, TypeOK
<1>15. Mine(p, t)'
  <2>1. PICK q \in Seq(NodeId) : q = Append(path[t], fresh)
    BY <1>13
  <2>2. /\ q = path'[t] /\ Len(q) = Len(path[t]) + 1 /\ q[Len(path[t]) + 1] = fresh
        /\ \A k \in 1 .. Len(path[t]) : q[k] = path[t][k]
    BY <1>13, <2>1
  <2>3. ASSUME NEW k \in 1 .. Len(q) PROVE q[k] < fresh' /\ label'[q[k]] = SubSeq(job[t].word, 1, k - 1)
    <3>1. CASE k = Len(path[t]) + 1
      <4>1. q[k] = fresh /\ k - 1 = Len(path[t])
        BY <1>2, <2>2, <3>1
      <4> QED
        BY <1>1, <1>3, <1>5, <1>6, <4>1
    <3>2. CASE k # Len(path[t]) + 1
      <4>1. k \in 1 .. Len(path[t])
        BY <1>2, <2>2, <3>2
      <4>2. path[t][k] \in NodeId /\ path[t][k] < fresh /\ label[path[t][k]] = SubSeq(job[t].word, 1, k - 1)
        BY <1>1, <4>1, WalkNodes
      <4>3. q[k] = path[t][k] /\ label'[path[t][k]] = label[path[t][k]]
        BY <1>9, <2>2, <4>1, <4>2
      <4>4. path[t][k] < fresh'
        BY <1>1, <1>6, <4>2 DEF NodeId
      <4> QED
        BY <4>2, <4>3, <4>4
    <3> QED
      BY <3>1, <3>2
  <2>4. ASSUME Tidy(job[t].word), NEW k \in 1 .. Len(q) - 1 PROVE kids'[q[k]][job[t].word[k]] = q[k + 1]
    <3>1. k \in 1 .. Len(path[t]) /\ k \in 1 .. Len(job[t].word)
      BY <1>2, <2>2
    <3>2. q[k] \in NodeId /\ job[t].word[k] \in Char /\ q[k] = path[t][k]
      BY <1>2, <2>2, <3>1, ElementOfSeq
    <3>3. CASE k = Len(path[t])
      <4>1. q[k] = n /\ job[t].word[k] = c /\ q[k + 1] = fresh
        BY <2>2, <3>2, <3>3 DEF n, c, Node, Rune
      <4> QED
        BY <1>5, <3>2, <4>1
    <3>4. CASE k # Len(path[t])
      <4>1. k \in 1 .. Len(path[t]) - 1 /\ k + 1 \in 1 .. Len(path[t])
        BY <1>2, <3>1, <3>4
      <4>2. kids[q[k]][job[t].word[k]] = path[t][k + 1] /\ q[k + 1] = path[t][k + 1]
        BY <1>2, <2>2, <2>4, <3>2, <4>1 DEF Walk
      <4>3. path[t][k + 1] \in NodeId
        BY <1>2, <4>1, ElementOfSeq
      <4>4. path[t][k + 1] # None
        BY <4>3, TrieAssumption DEF NodeId
      <4> QED
        BY <1>4, <1>5, <3>2, <4>2, <4>4
    <3> QED
      BY <3>3, <3>4
  <2>5. Walk(q, job[t].word)'
    <3>1. Len(q) \in 1 .. Len(job[t].word) + 1 /\ q[1] = Root
      BY <1>2, <2>2 DEF Walk
    <3>2. job'[t] = job[t]
      BY <1>1
    <3> QED
      BY <2>3, <2>4, <3>1, <3>2 DEF Walk
  <2>6. Walked(t)'
    BY <1>1, <1>2, <2>2, <2>5 DEF Walked
  <2>7. Listed(p, t)' /\ Bare(t)'
    BY <1>1 DEF Steady, Listed, Bare
  <2> QED
    BY <2>6, <2>7 DEF Mine
<1>16. ASSUME NEW u \in Thread, u # t PROVE Mine(p, u)'
  <2>1. Listed(p, u) /\ Walked(u) /\ Bare(u)
    BY DEF Steady
  <2>2. script'[u] = script[u] /\ job'[u] = job[u] /\ path'[u] = path[u]
    BY <1>14, <1>16 DEF Others
  <2>3. Listed(p, u)'
    BY <2>1, <2>2 DEF Listed
  <2>4. ASSUME job[u].op # "none" PROVE Walk(path[u], job[u].word)'
    <3>1. /\ job[u].word \in Seq(Char) /\ path[u] \in Seq(NodeId) /\ Walk(path[u], job[u].word)
          /\ Len(path[u]) \in 1 .. Len(job[u].word) + 1 /\ Len(job[u].word) \in Nat
      BY <2>4, InCall
    <3>2. ASSUME NEW k \in 1 .. Len(path[u])
          PROVE  path[u][k] < fresh' /\ label'[path[u][k]] = label[path[u][k]]
      <4>1. path[u][k] \in NodeId /\ path[u][k] < fresh
        BY <2>4, WalkNodes
      <4> QED
        BY <1>1, <1>6, <1>9, <4>1 DEF NodeId
    <3>3. ASSUME Tidy(job[u].word), NEW k \in 1 .. Len(path[u]) - 1
          PROVE  kids'[path[u][k]][job[u].word[k]] = kids[path[u][k]][job[u].word[k]]
      <4>1. k \in 1 .. Len(path[u]) /\ k + 1 \in 1 .. Len(path[u]) /\ k \in 1 .. Len(job[u].word)
        BY <3>1
      <4>2. path[u][k] \in NodeId /\ path[u][k + 1] \in NodeId /\ job[u].word[k] \in Char
        BY <3>1, <4>1, ElementOfSeq
      <4>3. kids[path[u][k]][job[u].word[k]] = path[u][k + 1]
        BY <3>1, <3>3 DEF Walk
      <4>4. path[u][k + 1] # None
        BY <4>2, TrieAssumption DEF NodeId
      <4> QED
        BY <1>4, <1>5, <4>2, <4>3, <4>4
    <3>4. PICK q, w : q = path[u] /\ w = job[u].word
      OBVIOUS
    <3>5. Walk(q, w)'
      BY <3>1, <3>2, <3>3, <3>4, KeptWalk
    <3> QED
      BY <2>2, <3>4, <3>5
  <2>5. Walked(u)'
    BY <2>1, <2>2, <2>4 DEF Walked
  <2>6. ASSUME job[u].op = "delUp", Tidy(job[u].word) PROVE Kid(u)' # None /\ \A d \in Char : kids'[Kid(u)'][d] = None
    <3>1. /\ Kid(u) # None /\ Kid(u) \in NodeId /\ label[Kid(u)] = SubSeq(job[u].word, 1, Len(path[u]))
          /\ \A d \in Char : kids[Kid(u)][d] = None
      BY <2>6, UpFacts
    <3>2. Node(u) \in NodeId /\ Rune(u) \in Char /\ Len(path[u]) \in 1 .. Len(job[u].word)
          /\ job[u].word \in Seq(Char)
      BY <2>6, WalkEnd, InCall
    <3>3. Kid(u)' = Kid(u)
      <4>1. Node(u)' = Node(u) /\ Rune(u)' = Rune(u)
        BY <2>2 DEF Node, Rune
      <4> QED
        BY <1>4, <1>5, <3>1, <3>2, <4>1 DEF Kid
    <3>4. Kid(u) # n
      <4>1. SUFFICES ASSUME Kid(u) = n PROVE FALSE
        OBVIOUS
      <4>2. SubSeq(job[u].word, 1, Len(path[u])) = SubSeq(job[t].word, 1, Len(path[t]) - 1)
        BY <1>1, <3>1, <4>1, WalkEnd DEF n
      <4>3. /\ Len(path[u]) \in 0 .. Len(job[u].word) /\ Len(path[t]) - 1 \in 0 .. Len(job[t].word)
            /\ Len(path[u]) >= 1
        BY <1>2, <3>2
      <4>4. /\ Len(path[u]) = Len(path[t]) - 1
            /\ \A i \in 1 .. Len(path[t]) - 1 : job[u].word[i] = job[t].word[i]
        <5>1. PICK i \in 0 .. Len(job[u].word), k \in 0 .. Len(job[t].word) :
                  i = Len(path[u]) /\ k = Len(path[t]) - 1 /\ SubSeq(job[u].word, 1, i) = SubSeq(job[t].word, 1, k)
          BY <4>2, <4>3
        <5>2. PICK w \in Seq(Char), v \in Seq(Char) : w = job[u].word /\ v = job[t].word
          BY <1>2, <3>2
        <5>3. i \in 0 .. Len(w) /\ k \in 0 .. Len(v) /\ SubSeq(w, 1, i) = SubSeq(v, 1, k)
          BY <5>1, <5>2
        <5>4. i = k /\ \A e \in 1 .. k : w[e] = v[e]
          BY <5>3, SameBeginning
        <5> QED
          BY <5>1, <5>2, <5>4
      <4>5. job[u].word[1] = job[t].word[1]
        BY <1>2, <4>3, <4>4
      <4> QED
        BY <1>1, <1>16, <2>6, <4>5, Alone
    <3> QED
      BY <1>5, <3>1, <3>3, <3>4
  <2>7. Bare(u)'
    BY <2>2, <2>6 DEF Bare
  <2> QED
    BY <2>3, <2>5, <2>7 DEF Mine
<1>17. \A u \in Thread : Mine(p, u)'
  BY <1>15, <1>16
<1>18. TypeOK'
  <2>1. \A u \in Thread : Len(path'[u]) <= Len(job'[u].word) + 1
    BY <1>14, <1>17, WalksShort DEF Mine
  <2>2. fresh' \in Root + 1 .. MaxNode + 1
    BY <1>1, <1>4, <1>6 DEF TypeOK, NodeId, Root
  <2>3. label'[Root] = << >> /\ ~end'[Root]
    BY <1>1, <1>4, <1>5, <1>6 DEF TypeOK
  <2>4. ASSUME NEW m \in fresh' .. MaxNode PROVE ~end'[m] /\ \A d \in Char : kids'[m][d] = None
    <3>1. m \in fresh .. MaxNode /\ m \in NodeId /\ m # n
      BY <1>1, <1>3, <1>6 DEF NodeId
    <3> QED
      BY <1>1, <1>4, <1>5, <3>1 DEF TypeOK, Blank
  <2>5. ASSUME NEW m \in NodeId, NEW d \in Char, kids'[m][d] # None
        PROVE  /\ kids'[m][d] \in m + 1 .. fresh' - 1
               /\ label'[kids'[m][d]] = Append(label'[m], d)
               /\ \A k \in NodeId, e \in Char : kids'[k][e] = kids'[m][d] => k = m /\ e = d
    <3>1. \A k \in NodeId, e \in Char : kids[k][e] # None => kids[k][e] \in k + 1 .. fresh - 1
      BY <1>4 DEF TypeOK, Tree
    <3>2. \A k \in NodeId, e \in Char : kids[k][e] # fresh
      BY <1>6, <3>1 DEF NodeId
    <3>3. CASE m = n /\ d = c
      <4>1. kids'[m][d] = fresh /\ label'[m] = label[n]
        BY <1>3, <1>5, <1>9, <3>3
      <4>2. kids'[m][d] \in m + 1 .. fresh' - 1
        BY <1>1, <1>3, <1>6, <3>3, <4>1
      <4> QED
        BY <1>1, <1>5, <3>2, <3>3, <4>1, <4>2
    <3>4. CASE ~(m = n /\ d = c)
      <4>1. kids'[m][d] = kids[m][d] /\ kids[m][d] # None
        BY <1>5, <2>5, <3>4
      <4>2. /\ kids[m][d] \in NodeId /\ kids[m][d] < fresh /\ label[kids[m][d]] = Append(label[m], d)
            /\ m < fresh
        BY <1>4, <4>1, KidFacts
      <4>3. kids'[m][d] \in m + 1 .. fresh' - 1
        BY <1>1, <1>6, <3>1, <4>1 DEF NodeId
      <4>4. label'[kids'[m][d]] = Append(label'[m], d)
        BY <1>9, <4>1, <4>2
      <4>5. ASSUME NEW k \in NodeId, NEW e \in Char, kids'[k][e] = kids'[m][d] PROVE k = m /\ e = d
        <5>1. kids[k][e] = kids[m][d]
          BY <1>5, <3>2, <4>1, <4>5
        <5> QED
          BY <1>4, <4>1, <5>1 DEF TypeOK, Tree
      <4> QED
        BY <4>3, <4>4, <4>5
    <3> QED
      BY <3>3, <3>4
  <2>6. Tree'
    BY <2>5 DEF Tree
  <2>7. Blank'
    BY <2>4 DEF Blank
  <2> QED
    BY <1>1, <1>4, <1>5, <1>14, <2>1, <2>2, <2>3, <2>6, <2>7 DEF TypeOK, ThreadTypes
<1> QED
  BY <1>10, <1>11, <1>12, <1>14, <1>17, <1>18 DEF Steady, Mine

\* Del deletes a node (trie.go:74, 78): no other walk is on it.
LEMMA DelUpSteady ==
    ASSUME NEW p \in Scripts, Steady(p), NEW t \in Thread, DelUp(t)
    PROVE  /\ Steady(p)' /\ Others(t)
           /\ Held' = IF Tidy(job[t].word) /\ Len(path[t]) = Len(job[t].word) THEN Held \ {job[t].word} ELSE Held
           /\ Len(path[t]) = 1 => job'[t] = NoJob
           /\ Len(path[t]) # 1 => job'[t] = job[t] /\ Len(path'[t]) = Len(path[t]) - 1
<1> DEFINE n == Node(t)
           c == Rune(t)
           x == Kid(t)
<1>1. /\ job[t].op = "delUp" /\ kids' = [kids EXCEPT ![n][c] = None] /\ UNCHANGED <<end, label, fresh, script>>
      /\ Len(path[t]) = 1 => Return(t)
      /\ Len(path[t]) # 1 => /\ path' = [path EXCEPT ![t] = SubSeq(@, 1, Len(@) - 1)]
                             /\ UNCHANGED job
  BY DEF DelUp
<1>2. /\ job[t].word \in Seq(Char) /\ job[t].word # << >> /\ Len(job[t].word) \in Nat
      /\ path[t] \in Seq(NodeId) /\ Len(path[t]) \in 1 .. Len(job[t].word) /\ Walk(path[t], job[t].word)
  BY <1>1, InCall
<1>3. n \in NodeId /\ c \in Char /\ kids[n][c] = x
  BY <1>1, <1>2, WalkEnd DEF Kid
<1>4. ASSUME Tidy(job[t].word)
      PROVE  /\ x # None /\ x \in NodeId /\ x \in Linked /\ x # Root
             /\ label[x] = SubSeq(job[t].word, 1, Len(path[t]))
             /\ \A d \in Char : kids[x][d] = None
             /\ Len(path[t]) > 1 => \A d \in Char : kids[n][d] # None => d = c
             /\ end[x] => Len(path[t]) = Len(job[t].word)
  BY <1>1, <1>4, UpFacts
<1>5. TypeOK /\ Named /\ Whole /\ Sourced(p)
  BY DEF Steady
<1>6. ASSUME NEW u \in Thread, job[u].op # "none", NEW k \in 1 .. Len(path[u]), k <= Len(job[u].word),
             Tidy(job[u].word), u # t \/ k # Len(path[t])
      PROVE  ~(path[u][k] = n /\ job[u].word[k] = c)
  <2>1. SUFFICES ASSUME path[u][k] = n /\ job[u].word[k] = c PROVE FALSE
    OBVIOUS
  <2>2. job[u].word[1] = job[t].word[1] /\ k = Len(path[t])
    BY <1>1, <1>2, <1>6, <2>1, SharedEdge
  <2>3. t # u
    BY <1>6, <2>2
  <2>4. job[t].op = "delUp" /\ job[u].op # "none" /\ job[u].word[1] = job[t].word[1] /\ Tidy(job[t].word)
    BY <1>1, <1>2, <1>6, <2>2 DEF Tidy
  <2> QED
    BY <2>3, <2>4, Alone
<1> HIDE DEF n, c, x
<1>7. /\ kids' \in [NodeId -> [Char -> NodeId \cup {None}]]
      /\ \A m \in NodeId, d \in Char : kids'[m][d] = IF m = n /\ d = c THEN None ELSE kids[m][d]
  <2>1. PICK y \in NodeId \cup {None} : y = None
    OBVIOUS
  <2>2. kids \in [NodeId -> [Char -> NodeId \cup {None}]]
    BY <1>5 DEF TypeOK
  <2> QED
    BY <1>1, <1>3, <2>1, <2>2
<1>8. \A m \in NodeId, d \in Char : kids'[m][d] # None => kids'[m][d] = kids[m][d] /\ ~(m = n /\ d = c)
  BY <1>7
<1>9. x # None => \A m \in NodeId, d \in Char : kids[m][d] = x => m = n /\ d = c
  BY <1>3, <1>5 DEF TypeOK, Tree
<1>10. Linked' = IF Tidy(job[t].word) THEN Linked \ {x} ELSE Linked
  <2>1. ASSUME NEW y \in Kids(NodeId)' PROVE y \in Kids(NodeId) /\ y # x
    <3>1. PICK m \in NodeId, d \in Char : y = kids'[m][d] /\ y # None
      BY <2>1 DEF Kids
    <3> QED
      BY <1>8, <1>9, <3>1 DEF Kids
  <2>2. ASSUME NEW y \in Kids(NodeId), y # x PROVE y \in Kids(NodeId)'
    <3>1. PICK m \in NodeId, d \in Char : y = kids[m][d] /\ y # None
      BY <2>2 DEF Kids
    <3>2. y = kids'[m][d]
      BY <1>3, <1>7, <2>2, <3>1
    <3> QED
      BY <3>1, <3>2 DEF Kids
  <2>3. x # Root
    <3>1. CASE x = None
      BY <3>1, TrieAssumption DEF Root
    <3>2. CASE x # None
      BY <1>3, <1>5, <3>2, KidFacts
    <3> QED
      BY <3>1, <3>2
  <2>4. x \in Kids(NodeId) => (Tidy(label[x]) <=> Tidy(job[t].word))
    <3>1. SUFFICES ASSUME x # None PROVE Tidy(label[x]) <=> Tidy(job[t].word)
      BY DEF Kids
    <3> QED
      BY <1>1, <1>2, <3>1, NextNode DEF x
  <2>5. \A y : y \in Linked <=> y = Root \/ (y \in Kids(NodeId) /\ Tidy(label[y]))
    BY DEF Linked
  <2>6. \A y : y \in Linked' <=> y = Root \/ (y \in Kids(NodeId)' /\ Tidy(label[y]))
    BY <1>1 DEF Linked
  <2> QED
    BY <2>1, <2>2, <2>3, <2>4, <2>5, <2>6
<1>11. Held' = IF Tidy(job[t].word) /\ Len(path[t]) = Len(job[t].word) THEN Held \ {job[t].word} ELSE Held
  <2>1. CASE ~Tidy(job[t].word)
    BY <1>1, <1>10, <2>1 DEF Held
  <2> SUFFICES ASSUME Tidy(job[t].word)
               PROVE  Held' = IF Len(path[t]) = Len(job[t].word) THEN Held \ {job[t].word} ELSE Held
    BY <2>1
  <2>2. Held' = {label[m] : m \in {y \in Linked \ {x} : end[y]}}
    BY <1>1, <1>10 DEF Held
  <2>3. CASE Len(path[t]) = Len(job[t].word)
    <3>1. label[x] = job[t].word
      BY <1>2, <1>4, <2>3, SubSeqFull
    <3>2. \A y \in Linked : label[y] = job[t].word => y = x
      BY <1>4, <1>5, <3>1, UniqueLabels
    <3> QED
      BY <2>2, <2>3, <3>1, <3>2 DEF Held
  <2>4. CASE Len(path[t]) # Len(job[t].word)
    BY <1>4, <2>2, <2>4 DEF Held
  <2> QED
    BY <2>3, <2>4
<1>12. Named' /\ Whole'
  <2>1. SUFFICES ASSUME NEW m \in NodeId, NEW d \in Char, kids'[m][d] # None, Tidy(label[m]) PROVE m \in Linked'
    BY <1>1, <1>5 DEF Named, Whole
  <2>2. kids[m][d] # None
    BY <1>8, <2>1
  <2>3. m \in Linked /\ (Tidy(job[t].word) => m # x)
    BY <1>4, <1>5, <2>1, <2>2 DEF Whole
  <2> QED
    BY <1>10, <2>3
<1>13. Sourced(p)'
  <2>1. \A m \in NodeId, d \in Char : kids'[m][d] # None => kids[m][d] # None
    BY <1>8
  <2> QED
    BY <1>1, <1>5, <2>1 DEF Sourced
<1>14. /\ ThreadTypes' /\ Others(t) /\ Mine(p, t)'
       /\ Len(path[t]) = 1 => job'[t] = NoJob
       /\ Len(path[t]) # 1 => job'[t] = job[t] /\ Len(path'[t]) = Len(path[t]) - 1
  <2>1. CASE Len(path[t]) = 1
    BY <1>1, <2>1, Returned DEF ThreadTypes
  <2>2. CASE Len(path[t]) # 1
    <3>1. PICK l \in Nat : l = Len(path[t]) - 1
      <4>1. Len(path[t]) \in Int /\ Len(path[t]) >= 1
        BY <1>2
      <4> QED
        BY <2>2, <4>1
    <3>2. /\ l \in 1 .. Len(path[t]) /\ l + 1 = Len(path[t]) /\ l \in 1 .. Len(job[t].word) /\ Len(path[t]) > 1
          /\ l + 1 \in 1 .. Len(path[t])
      <4>1. Len(path[t]) \in Int /\ Len(path[t]) >= 1 /\ Len(path[t]) <= Len(job[t].word) /\ Len(job[t].word) \in Int
        BY <1>2
      <4>2. PICK a \in Int, b \in Int : a = Len(path[t]) /\ b = Len(job[t].word)
        BY <4>1
      <4>3. a >= 1 /\ a # 1 /\ a <= b /\ l = a - 1
        BY <2>2, <3>1, <4>1, <4>2
      <4>4. l \in 1 .. a /\ l + 1 = a /\ l \in 1 .. b /\ a > 1 /\ l + 1 \in 1 .. a
        BY <4>3
      <4> QED
        BY <4>2, <4>4
    <3>3. \A k \in 1 .. l : path[t][k] \in NodeId
      BY <1>2, <3>2, ElementOfSeq
    <3>4. PICK q \in Seq(NodeId) : q = SubSeq(path[t], 1, l) /\ Len(q) = l /\ \A k \in 1 .. l : q[k] = path[t][k]
      <4>1. \A i \in 1 .. l - 1 + 1 : 1 + i - 1 = i
        OBVIOUS
      <4>2. /\ SubSeq(path[t], 1, l) \in Seq(NodeId) /\ Len(SubSeq(path[t], 1, l)) = l
            /\ \A k \in 1 .. l : SubSeq(path[t], 1, l)[k] = path[t][k]
        BY <3>2, <3>3, <4>1, SubSeqProperties
      <4> QED
        BY <4>2
    <3>5. path' = [path EXCEPT ![t] = q] /\ UNCHANGED job
      BY <1>1, <2>2, <3>1, <3>4
    <3>6. path' \in [Thread -> Seq(NodeId)] /\ path'[t] = q
      BY <1>5, <3>5 DEF TypeOK
    <3>7. ThreadTypes' /\ Others(t)
      BY <1>1, <1>5, <3>5, <3>6 DEF ThreadTypes, Others, TypeOK
    <3>8. Listed(p, t)'
      BY <1>1, <3>5 DEF Steady, Listed
    <3>9. Tidy(job[t].word) => \A k \in 1 .. l : kids'[path[t][k]][job[t].word[k]] = kids[path[t][k]][job[t].word[k]]
      <4>1. SUFFICES ASSUME Tidy(job[t].word), NEW k \in 1 .. l
                     PROVE  kids'[path[t][k]][job[t].word[k]] = kids[path[t][k]][job[t].word[k]]
        OBVIOUS
      <4>2. k \in 1 .. Len(path[t]) /\ k <= Len(job[t].word) /\ k \in 1 .. Len(job[t].word) /\ k # Len(path[t])
        BY <1>2, <3>2
      <4>3. ~(path[t][k] = n /\ job[t].word[k] = c)
        BY <1>1, <1>6, <4>1, <4>2
      <4>4. path[t][k] \in NodeId /\ job[t].word[k] \in Char
        BY <1>2, <4>2, ElementOfSeq
      <4> QED
        BY <1>7, <4>3, <4>4
    <3>10. Walk(q, job[t].word)'
      <4>1. \A k \in 1 .. l : k \in 1 .. Len(path[t])
        BY <3>2
      <4>2. \A k \in 1 .. l - 1 : k \in 1 .. l /\ k + 1 \in 1 .. l /\ k \in 1 .. Len(path[t]) - 1
        BY <3>2
      <4>3. l \in 1 .. Len(job[t].word) + 1 /\ q[1] = Root
        BY <1>2, <3>2, <3>4 DEF Walk
      <4>4. \A k \in 1 .. l : q[k] < fresh' /\ label'[q[k]] = SubSeq(job[t].word, 1, k - 1)
        BY <1>1, <1>2, <3>4, <4>1 DEF Walk
      <4>5. Tidy(job[t].word) => \A k \in 1 .. l - 1 : kids'[q[k]][job[t].word[k]] = q[k + 1]
        BY <1>2, <3>4, <3>9, <4>2 DEF Walk
      <4>6. job'[t] = job[t]
        BY <3>5
      <4> QED
        BY <3>4, <4>3, <4>4, <4>5, <4>6 DEF Walk
    <3>11. Walked(t)'
      <4>1. l <= Len(job[t].word)
        BY <3>2
      <4> QED
        BY <1>1, <1>2, <3>4, <3>5, <3>6, <3>10, <4>1 DEF Walked
    <3>12. Bare(t)'
      <4>1. SUFFICES ASSUME Tidy(job[t].word) PROVE Kid(t)' # None /\ \A d \in Char : kids'[Kid(t)'][d] = None
        BY <3>5 DEF Bare
      <4>2. Node(t)' = path[t][l] /\ Rune(t)' = job[t].word[l]
        BY <3>2, <3>4, <3>5, <3>6 DEF Node, Rune
      <4>3. kids[path[t][l]][job[t].word[l]] = path[t][l + 1]
        <5>1. l \in 1 .. Len(path[t]) - 1
          BY <3>1, <3>2
        <5> QED
          BY <1>2, <4>1, <5>1 DEF Walk
      <4>4. path[t][l + 1] = n
        BY <3>2 DEF n, Node
      <4>5. l \in 1 .. l
        BY <3>2
      <4>6. Kid(t)' = n
        BY <3>9, <4>1, <4>2, <4>3, <4>4, <4>5 DEF Kid
      <4>7. n # None
        BY <1>3, TrieAssumption DEF NodeId
      <4>8. \A d \in Char : kids'[n][d] = None
        BY <1>3, <1>4, <1>7, <3>2, <4>1
      <4> QED
        BY <4>6, <4>7, <4>8
    <3> QED
      BY <2>2, <3>1, <3>4, <3>5, <3>6, <3>7, <3>8, <3>11, <3>12 DEF Mine
  <2> QED
    BY <2>1, <2>2
<1>15. ASSUME NEW u \in Thread, u # t PROVE Mine(p, u)'
  <2>1. Listed(p, u) /\ Walked(u) /\ Bare(u)
    BY DEF Steady
  <2>2. script'[u] = script[u] /\ job'[u] = job[u] /\ path'[u] = path[u]
    BY <1>14, <1>15 DEF Others
  <2>3. Listed(p, u)'
    BY <2>1, <2>2 DEF Listed
  <2>4. ASSUME job[u].op # "none", Tidy(job[u].word), NEW k \in 1 .. Len(path[u]), k <= Len(job[u].word)
        PROVE  kids'[path[u][k]][job[u].word[k]] = kids[path[u][k]][job[u].word[k]]
    <3>1. /\ job[u].word \in Seq(Char) /\ path[u] \in Seq(NodeId) /\ Len(job[u].word) \in Nat
          /\ Len(path[u]) \in 1 .. Len(job[u].word) + 1
      BY <2>4, InCall
    <3>2. k \in 1 .. Len(job[u].word)
      BY <2>4, <3>1
    <3>3. path[u][k] \in NodeId /\ job[u].word[k] \in Char
      BY <3>1, <3>2, ElementOfSeq
    <3>4. ~(path[u][k] = n /\ job[u].word[k] = c)
      BY <1>6, <1>15, <2>4
    <3> QED
      BY <1>7, <3>3, <3>4
  <2>5. ASSUME job[u].op # "none" PROVE Walk(path[u], job[u].word)'
    <3>1. /\ Walk(path[u], job[u].word) /\ Len(path[u]) \in 1 .. Len(job[u].word) + 1
          /\ Len(job[u].word) \in Nat
      BY <2>5, InCall
    <3>2. \A k \in 1 .. Len(path[u]) - 1 : k \in 1 .. Len(path[u]) /\ k <= Len(job[u].word)
      BY <3>1
    <3>3. PICK q, w : q = path[u] /\ w = job[u].word
      OBVIOUS
    <3>4. /\ \A k \in 1 .. Len(q) : q[k] < fresh' /\ label'[q[k]] = label[q[k]]
          /\ Tidy(w) => \A k \in 1 .. Len(q) - 1 : kids'[q[k]][w[k]] = kids[q[k]][w[k]]
      BY <1>1, <2>4, <2>5, <3>1, <3>2, <3>3 DEF Walk
    <3>5. Walk(q, w)'
      BY <3>1, <3>3, <3>4, KeptWalk
    <3> QED
      BY <2>2, <3>3, <3>5
  <2>6. Walked(u)'
    BY <2>1, <2>2, <2>5 DEF Walked
  <2>7. ASSUME job[u].op = "delUp", Tidy(job[u].word) PROVE Kid(u)' # None /\ \A d \in Char : kids'[Kid(u)'][d] = None
    <3>1. Kid(u) # None /\ Kid(u) \in NodeId /\ \A d \in Char : kids[Kid(u)][d] = None
      BY <2>7, UpFacts
    <3>2. Len(path[u]) \in 1 .. Len(path[u]) /\ Len(path[u]) <= Len(job[u].word)
      BY <2>7, InCall
    <3>3. Kid(u)' = Kid(u)
      <4>1. Node(u)' = Node(u) /\ Rune(u)' = Rune(u)
        BY <2>2 DEF Node, Rune
      <4>2. kids'[Node(u)][Rune(u)] = kids[Node(u)][Rune(u)]
        BY <2>4, <2>7, <3>2 DEF Node, Rune
      <4> QED
        BY <4>1, <4>2 DEF Kid
    <3> QED
      BY <1>7, <3>1, <3>3
  <2>8. Bare(u)'
    BY <2>2, <2>7 DEF Bare
  <2> QED
    BY <2>3, <2>6, <2>8 DEF Mine
<1>16. \A u \in Thread : Mine(p, u)'
  BY <1>14, <1>15
<1>17. TypeOK'
  <2>1. \A u \in Thread : Len(path'[u]) <= Len(job'[u].word) + 1
    BY <1>14, <1>16, WalksShort DEF Mine
  <2>2. ASSUME NEW m \in fresh .. MaxNode PROVE ~end'[m] /\ \A d \in Char : kids'[m][d] = None
    <3>1. m \in NodeId
      BY <1>5, TrieAssumption DEF TypeOK, NodeId, Root
    <3> QED
      BY <1>1, <1>5, <1>7, <3>1 DEF TypeOK, Blank
  <2>3. ASSUME NEW m \in NodeId, NEW d \in Char, kids'[m][d] # None
        PROVE  /\ kids'[m][d] \in m + 1 .. fresh' - 1
               /\ label'[kids'[m][d]] = Append(label'[m], d)
               /\ \A k \in NodeId, e \in Char : kids'[k][e] = kids'[m][d] => k = m /\ e = d
    <3>1. kids'[m][d] = kids[m][d] /\ kids[m][d] # None
      BY <1>8, <2>3
    <3>2. ASSUME NEW k \in NodeId, NEW e \in Char, kids'[k][e] = kids'[m][d] PROVE k = m /\ e = d
      <4>1. kids[k][e] = kids[m][d]
        BY <1>8, <2>3, <3>1, <3>2
      <4> QED
        BY <1>5, <3>1, <4>1 DEF TypeOK, Tree
    <3>3. kids[m][d] \in m + 1 .. fresh - 1 /\ label[kids[m][d]] = Append(label[m], d)
      BY <1>5, <3>1 DEF TypeOK, Tree
    <3> QED
      BY <1>1, <3>1, <3>2, <3>3
  <2>4. label'[Root] = << >> /\ ~end'[Root]
    BY <1>1, <1>5 DEF TypeOK
  <2>5. Tree'
    BY <2>3 DEF Tree
  <2>6. Blank'
    BY <1>1, <2>2 DEF Blank
  <2> QED
    BY <1>1, <1>5, <1>7, <1>14, <2>1, <2>4, <2>5, <2>6 DEF TypeOK, ThreadTypes
<1> QED
  BY <1>11, <1>12, <1>13, <1>14, <1>16, <1>17 DEF Steady, Mine

-----------------------------------------------------------------------------
(* The words *)

\* A call begins with an Add or a Del, or not at all.
LEMMA CallOp ==
    ASSUME NEW p, Steady(p), NEW t \in Thread, Call(t)
    PROVE  /\ job[t] = NoJob
           /\ job'[t] = NoJob \/ (job'[t] = Head(script[t]) /\ Head(script[t]) \in Job)
<1>1. /\ script[t] \in Seq(Job) /\ script[t] # << >>
      /\ job \in [Thread -> [op : {"none", "add", "del", "delUp"}, word : Seq(Char)]]
  BY DEF Steady, TypeOK, Call
<1>2. Head(script[t]) \in Job
  BY <1>1, HeadTailProperties
<1> QED
  BY <1>1, <1>2 DEF Call

\* A Del that finds no node to delete finds that its word is not in the trie.
LEMMA MissFacts ==
    ASSUME NEW p, Steady(p), NEW t \in Thread, DelMiss(t), Tidy(job[t].word)
    PROVE  job[t].word \notin Held
<1>1. SUFFICES ASSUME NEW y \in Linked, end[y], label[y] = job[t].word PROVE FALSE
  BY DEF Held
<1>2. job[t].op = "del" /\ (Kid(t) = None \/ (Len(path[t]) = Len(job[t].word) /\ ~end[Kid(t)]))
  BY DEF DelMiss
<1>3. /\ job[t].word \in Seq(Char) /\ Len(job[t].word) \in Nat /\ Len(path[t]) \in 1 .. Len(job[t].word)
      /\ Len(path[t]) \in 0 .. Len(job[t].word)
  BY <1>2, InCall
<1>4. TypeOK /\ Named /\ Whole
  BY DEF Steady
<1>5. PICK z \in Linked : label[z] = SubSeq(job[t].word, 1, Len(path[t]))
  <2>1. Len(path[t]) \in 0 .. Len(label[y])
    BY <1>1, <1>3
  <2>2. \E z \in Linked : label[z] = SubSeq(label[y], 1, Len(path[t]))
    BY <1>4, <2>1, OnTheWay
  <2> QED
    BY <1>1, <2>2
<1>6. z # Root
  <2>1. Len(label[z]) = Len(path[t])
    BY <1>3, <1>5, Beginning
  <2>2. Len(label[z]) # 0
    BY <1>3, <2>1
  <2> QED
    BY <1>4, <2>2 DEF TypeOK
<1>7. PICK m \in NodeId, d \in Char : /\ kids[m][d] = z /\ kids[m][d] # None /\ m \in Linked
                                      /\ label[m] \in Seq(Char) /\ label[z] = Append(label[m], d)
  BY <1>4, <1>6, ParentOf
<1>8. /\ Node(t) \in Linked /\ label[Node(t)] \in Seq(Char) /\ Rune(t) \in Char
      /\ Append(label[Node(t)], Rune(t)) = SubSeq(job[t].word, 1, Len(path[t]))
  BY <1>2, <1>3, WalkEnd
<1>9. label[m] = label[Node(t)] /\ d = Rune(t)
  <2>1. Append(label[m], d) = Append(label[Node(t)], Rune(t))
    BY <1>5, <1>7, <1>8
  <2>2. label[m] \in Seq(Char) /\ label[Node(t)] \in Seq(Char) /\ Rune(t) \in Char
    BY <1>7, <1>8
  <2> QED
    BY <2>1, <2>2, SameAppend
<1>10. m = Node(t)
  BY <1>4, <1>7, <1>8, <1>9, UniqueLabels
<1>11. Kid(t) = z /\ Kid(t) # None
  BY <1>7, <1>9, <1>10 DEF Kid
<1>12. Len(path[t]) = Len(job[t].word) /\ ~end[Kid(t)]
  BY <1>2, <1>11
<1>13. label[z] = label[y]
  BY <1>1, <1>3, <1>5, <1>12, SubSeqFull
<1>14. z = y
  BY <1>4, <1>13, UniqueLabels
<1> QED
  BY <1>1, <1>11, <1>12, <1>14

-----------------------------------------------------------------------------
(* The invariant *)

\* NewTrie establishes the invariant (trie.go:20-24).
LEMMA InvInit ==
    ASSUME Init PROVE \E p \in Scripts : Steady(p) /\ Held = {}
<1>1. PICK p \in Scripts : p = script
  BY DEF Init
<1>2. p \in [Thread -> Seq(Job)] /\ MaxNode \in Nat \ {0} /\ None \notin 1 .. MaxNode
  BY TrieAssumption
<1>3. /\ kids \in [NodeId -> [Char -> NodeId \cup {None}]] /\ label \in [NodeId -> Seq(Char)]
      /\ \A n \in NodeId, c \in Char : kids[n][c] = None
      /\ \A n \in NodeId : label[n] = << >> /\ end[n] = FALSE
      /\ end \in [NodeId -> BOOLEAN]
  BY EmptySeq DEF Init
<1>4. Root \in NodeId /\ fresh \in Root + 1 .. MaxNode + 1 /\ fresh .. MaxNode \subseteq NodeId
  BY <1>2 DEF Init, Root, NodeId
<1>5. /\ job \in [Thread -> [op : {"none", "add", "del", "delUp"}, word : Seq(Char)]]
      /\ path \in [Thread -> Seq(NodeId)]
      /\ \A t \in Thread : job[t] = NoJob /\ path[t] = << >> /\ job[t].op = "none"
  <2>1. NoJob \in [op : {"none", "add", "del", "delUp"}, word : Seq(Char)] /\ NoJob.op = "none"
    BY EmptySeq DEF NoJob
  <2> QED
    BY <2>1, EmptySeq DEF Init
<1>6. \A t \in Thread : Len(path[t]) <= Len(job[t].word) + 1
  BY <1>5 DEF NoJob
<1>7. TypeOK
  <2>1. Tree /\ Blank
    BY <1>3, <1>4 DEF Tree, Blank
  <2> QED
    BY <1>1, <1>2, <1>3, <1>4, <1>5, <1>6, <2>1 DEF TypeOK, Init
<1>8. Named /\ Whole /\ Sourced(p)
  <2>1. Root + 1 .. fresh - 1 = {}
    BY DEF Init, Root
  <2> QED
    BY <1>3, <2>1 DEF Named, Whole, Sourced
<1>9. ASSUME NEW t \in Thread PROVE Listed(p, t) /\ Walked(t) /\ Bare(t)
  <2>1. \A k \in DOMAIN p[t] : p[t][k] \in Job
    BY <1>2
  <2>2. \A k \in DOMAIN p[t] : p[t][k] = [op |-> p[t][k].op, word |-> p[t][k].word]
    BY <2>1 DEF Job
  <2>3. Listed(p, t)
    BY <1>1, <1>5, <2>2 DEF Listed, Does
  <2> QED
    BY <1>5, <2>3 DEF Walked, Bare
<1>10. Linked = {Root}
  BY <1>3 DEF Linked, Kids
<1>11. Held = {}
  BY <1>3, <1>4, <1>10 DEF Held
<1> QED
  BY <1>7, <1>8, <1>9, <1>11 DEF Steady

\* Add goes on to a node that is there or to a new one (trie.go:46).
LEMMA AddNodeSteady ==
    ASSUME NEW p \in Scripts, Steady(p), NEW t \in Thread, AddNode(t)
    PROVE  Steady(p)' /\ Held' = Held /\ Others(t)
<1>1. CASE Kid(t) = None
  BY <1>1, StoreSteady
<1>2. CASE Kid(t) # None
  <2>1. /\ job[t].op = "add" /\ ~(Len(path[t]) > Len(job[t].word))
        /\ path' = [path EXCEPT ![t] = Append(@, Kid(t))] /\ UNCHANGED <<heap, script, job>>
    BY <1>2 DEF AddNode, AtEnd, heap
  <2>2. Len(path[t]) <= Len(job[t].word)
    BY <2>1, InCall
  <2> QED
    BY <1>2, <2>1, <2>2, GoesOn
<1> QED
  BY <1>1, <1>2

\* Del goes down (trie.go:71-72).
LEMMA DelDownSteady ==
    ASSUME NEW p \in Scripts, Steady(p), NEW t \in Thread, DelDown(t)
    PROVE  Steady(p)' /\ Held' = Held /\ Others(t)
<1>1. /\ job[t].op = "del" /\ Kid(t) # None /\ Len(path[t]) < Len(job[t].word)
      /\ path' = [path EXCEPT ![t] = Append(@, Kid(t))] /\ UNCHANGED <<heap, script, job>>
  BY DEF DelDown
<1>2. Len(path[t]) <= Len(job[t].word)
  BY <1>1, InCall
<1> QED
  BY <1>1, <1>2, GoesOn

\* Every step keeps the invariant.
LEMMA InvStep ==
    ASSUME NEW p \in Scripts, Steady(p), [Next]_vars
    PROVE  Steady(p)'
<1>1. ASSUME NEW t \in Thread, AddNode(t) PROVE Steady(p)'
  BY <1>1, AddNodeSteady
<1>2. ASSUME NEW t \in Thread, DelDown(t) PROVE Steady(p)'
  BY <1>2, DelDownSteady
<1>3. ASSUME NEW t \in Thread, Call(t) \/ AddEnd(t) PROVE Steady(p)'
  BY <1>3, CallSteady, AddEndSteady
<1>4. ASSUME NEW t \in Thread, DelFound(t) \/ DelUp(t) \/ DelMiss(t) PROVE Steady(p)'
  BY <1>4, DelFoundSteady, DelUpSteady, DelMissSteady
<1>5. CASE UNCHANGED vars
  <2>1. UNCHANGED <<kids, end, label, fresh, script, job, path>>
    BY <1>5 DEF vars, heap
  <2>2. Linked' = Linked
    BY <2>1 DEF Linked, Kids
  <2>3. TypeOK'
    <3>1. TypeOK
      BY DEF Steady
    <3>2. Tree' /\ Blank'
      BY <2>1, <3>1 DEF TypeOK, Tree, Blank
    <3> QED
      BY <2>1, <3>1, <3>2 DEF TypeOK
  <2>4. Named' /\ Whole'
    BY <2>1, <2>2 DEF Steady, Named, Whole
  <2>5. Sourced(p)'
    BY <2>1 DEF Steady, Sourced
  <2>6. ASSUME NEW t \in Thread PROVE Listed(p, t)' /\ Walked(t)' /\ Bare(t)'
    <3>1. Listed(p, t) /\ Walked(t) /\ Bare(t)
      BY DEF Steady
    <3>2. Listed(p, t)'
      BY <2>1, <3>1 DEF Listed
    <3>3. Walked(t)'
      BY <2>1, <3>1 DEF Walked, Walk
    <3>4. Bare(t)'
      BY <2>1, <3>1 DEF Bare, Kid, Node, Rune
    <3> QED
      BY <3>2, <3>3, <3>4
  <2> QED
    BY <2>3, <2>4, <2>5, <2>6 DEF Steady
<1> QED
  BY <1>1, <1>2, <1>3, <1>4, <1>5 DEF Next

-----------------------------------------------------------------------------
(* Theorems *)

\* The words of ReadAll that begin with Apart runes.
Tidied == {w \in ReadAll : Tidy(w)}

\* The invariant, for the script the threads began with, and what ReadAll
\* returns of the words that begin with Apart runes.
IInv == (\E p \in Scripts : Steady(p)) /\ Tidied = Held

\* The inductive invariant holds in every reachable state.
LEMMA Invariant == Spec => []IInv
<1> DEFINE I == \E p \in Scripts : Steady(p)
<1>1. Init => I
  BY InvInit
<1>2. I /\ [Next]_vars => I'
  BY InvStep
<1>3. I => Tidied = Held
  BY ReadAllIsHeld DEF Steady, Tidied
<1>4. I => IInv
  BY <1>3 DEF IInv
<1> QED
  BY <1>1, <1>2, <1>4, PTL DEF Spec

\* The nodes of the trie form a tree, each node reached by its own runes, and
\* no walk of Add or Del leaves its word, whatever runs at the same time.
THEOREM TypeCorrect == Spec => []TypeOK
<1>1. IInv => TypeOK
  BY DEF IInv, Steady
<1> QED
  BY <1>1, Invariant, PTL

\* t's call becomes another while nobody else's does.
LEMMA Becomes ==
    ASSUME NEW t \in Thread, Others(t), NEW call, Pending(t)' = call
    PROVE  Abstract!Become(t, call)
<1>1. \A u \in Thread : u # t => Pending(u)' = Pending(u)
  BY DEF Others, Pending
<1>2. [u \in Thread |-> Pending(u)]' = [[u \in Thread |-> Pending(u)] EXCEPT ![t] = call]
  BY <1>1
<1> QED
  BY <1>2 DEF Abstract!Become

\* No call changes as WordSet sees it.
LEMMA Unmoved ==
    ASSUME NEW t \in Thread, Others(t), Pending(t)' = Pending(t)
    PROVE  [u \in Thread |-> Pending(u)]' = [u \in Thread |-> Pending(u)]
<1>1. \A u \in Thread : Pending(u)' = Pending(u)
  BY DEF Others, Pending
<1> QED
  BY <1>1

\* What WordSet sees of a call.
LEMMA Seen ==
    ASSUME NEW t \in Thread
    PROVE  /\ ~Tidy(job[t].word) => Pending(t) = Abstract!NoCall
           /\ job[t] = NoJob => Pending(t) = Abstract!NoCall
           /\ Tidy(job[t].word) /\ job[t].op # "delUp" => Pending(t) = job[t]
           /\ Tidy(job[t].word) /\ job[t].op = "delUp" =>
                Pending(t) = [op |-> IF Len(path[t]) = Len(job[t].word) THEN "del" ELSE "deleted",
                              word |-> job[t].word]
  BY DEF Pending, Abstract!NoCall, NoJob, Tidy

\* Every step of the trie is a step of WordSet or none.
LEMMA RefineStep ==
    ASSUME IInv, IInv', [Next]_vars
    PROVE  [Abstract!WordNext]_<<Tidied, [t \in Thread |-> Pending(t)]>>
<1> DEFINE P == [t \in Thread |-> Pending(t)]
<1>1. PICK p \in Scripts : Steady(p)
  BY DEF IInv
<1>2. Tidied = Held /\ Tidied' = Held'
  BY DEF IInv
<1>3. Tidied = {w \in ReadAll : Tidy(w)}
  BY DEF Tidied
<1>4. ASSUME NEW t \in Thread, Call(t) PROVE Abstract!WordNext \/ UNCHANGED <<Tidied, P>>
  <2>1. Held' = Held /\ Others(t)
    BY <1>1, <1>4, CallSteady
  <2>2. /\ job[t] = NoJob
        /\ job'[t] = NoJob \/ (job'[t] = Head(script[t]) /\ Head(script[t]) \in Job)
    BY <1>1, <1>4, CallOp
  <2>3. Pending(t) = Abstract!NoCall
    BY <2>2, Seen
  <2>4. CASE job'[t] = NoJob \/ ~Tidy(job'[t].word)
    <3>1. Pending(t)' = Pending(t)
      BY <2>3, <2>4 DEF Pending, NoJob, Abstract!NoCall, Tidy
    <3> QED
      BY <1>2, <2>1, <3>1, Unmoved
  <2>5. CASE job'[t] = Head(script[t]) /\ Head(script[t]) \in Job /\ Tidy(job'[t].word)
    <3>1. PICK j \in Job : j = job'[t]
      BY <2>5
    <3>2. j.op \in {"add", "del"} /\ j = [op |-> j.op, word |-> j.word]
      BY DEF Job
    <3>3. Pending(t)' = [op |-> j.op, word |-> j.word]
      BY <2>5, <3>1, <3>2 DEF Pending
    <3>4. j.word \in UNION {{x.job.word : x \in Calls(r)} : r \in Scripts}
      <4>1. script[t] # << >> /\ script[t] \in Seq(Job)
        BY <1>1, <1>4 DEF Steady, TypeOK, Call
      <4>2. 1 \in DOMAIN script[t] /\ Head(script[t]) = script[t][1]
        BY <4>1, EmptySeq, LenProperties
      <4>3. Does(p, t, j.op, j.word)
        BY <1>1, <2>5, <3>1, <4>2 DEF Steady, Listed
      <4>4. [thread |-> t, job |-> [op |-> j.op, word |-> j.word]] \in Calls(p)
        BY <4>3 DEF Does, Calls
      <4> QED
        BY <4>4
    <3>5. Abstract!Become(t, [op |-> j.op, word |-> j.word])
      BY <2>1, <3>3, Becomes
    <3>6. Abstract!Invoke(t)
      BY <1>2, <1>3, <2>1, <2>3, <3>2, <3>4, <3>5 DEF Abstract!Invoke, Tidied
    <3> QED
      BY <3>6 DEF Abstract!WordNext
  <2> QED
    BY <2>2, <2>4, <2>5
<1>5. ASSUME NEW t \in Thread, AddNode(t) PROVE UNCHANGED <<Tidied, P>>
  <2>1. Held' = Held /\ Others(t)
    BY <1>1, <1>5, AddNodeSteady
  <2>2. Pending(t)' = Pending(t)
    BY <1>5 DEF AddNode, Pending
  <2> QED
    BY <1>2, <2>1, <2>2, Unmoved
<1>6. ASSUME NEW t \in Thread, AddEnd(t) PROVE Abstract!WordNext \/ UNCHANGED <<Tidied, P>>
  <2>1. /\ Others(t) /\ job'[t] = NoJob
        /\ Held' = IF Tidy(job[t].word) THEN Held \cup {job[t].word} ELSE Held
    BY <1>1, <1>6, AddEndSteady
  <2>2. Pending(t)' = Abstract!NoCall
    BY <2>1 DEF Pending, NoJob, Abstract!NoCall, Tidy
  <2>3. CASE ~Tidy(job[t].word)
    <3>1. Pending(t)' = Pending(t)
      BY <2>2, <2>3, Seen
    <3> QED
      BY <1>2, <2>1, <2>3, <3>1, Unmoved
  <2>4. CASE Tidy(job[t].word)
    <3>1. Pending(t) = job[t] /\ job[t].op = "add"
      BY <1>6, <2>4, Seen DEF AddEnd
    <3>2. Abstract!Become(t, Abstract!NoCall)
      BY <2>1, <2>2, Becomes
    <3>3. Abstract!AddWord(t)
      BY <1>2, <1>3, <2>1, <2>4, <3>1, <3>2 DEF Abstract!AddWord, Tidied
    <3> QED
      BY <3>3 DEF Abstract!WordNext
  <2> QED
    BY <2>3, <2>4
<1>7. ASSUME NEW t \in Thread, DelDown(t) PROVE UNCHANGED <<Tidied, P>>
  <2>1. Held' = Held /\ Others(t)
    BY <1>1, <1>7, DelDownSteady
  <2>2. Pending(t)' = Pending(t)
    BY <1>7 DEF DelDown, Pending
  <2> QED
    BY <1>2, <2>1, <2>2, Unmoved
<1>8. ASSUME NEW t \in Thread, DelFound(t) PROVE UNCHANGED <<Tidied, P>>
  <2>1. Held' = Held /\ Others(t)
    BY <1>1, <1>8, DelFoundSteady
  <2>2. job[t].op = "del" /\ Kid(t) # None /\ end[Kid(t)] /\ UNCHANGED path /\ job' = [job EXCEPT ![t].op = "delUp"]
    BY <1>8 DEF DelFound
  <2>3. job[t] \in [op : {"none", "add", "del", "delUp"}, word : Seq(Char)] /\ t \in DOMAIN job
    BY <1>1 DEF Steady, TypeOK
  <2>4. job[t] = [op |-> "del", word |-> job[t].word] /\ job'[t].op = "delUp" /\ job'[t].word = job[t].word
    BY <2>2, <2>3
  <2>5. Pending(t)' = Pending(t)
    <3>1. CASE Tidy(job[t].word)
      <4>1. Len(path[t]) = Len(job[t].word)
        BY <1>1, <2>2, <3>1, FoundFacts
      <4> QED
        BY <2>2, <2>4, <3>1, <4>1 DEF Pending
    <3>2. CASE ~Tidy(job[t].word)
      BY <2>4, <3>2 DEF Pending
    <3> QED
      BY <3>1, <3>2
  <2> QED
    BY <1>2, <2>1, <2>5, Unmoved
<1>9. ASSUME NEW t \in Thread, DelUp(t) PROVE Abstract!WordNext \/ UNCHANGED <<Tidied, P>>
  <2>1. /\ Others(t)
        /\ Held' = IF Tidy(job[t].word) /\ Len(path[t]) = Len(job[t].word) THEN Held \ {job[t].word} ELSE Held
        /\ Len(path[t]) = 1 => job'[t] = NoJob
        /\ Len(path[t]) # 1 => job'[t] = job[t] /\ Len(path'[t]) = Len(path[t]) - 1
    BY <1>1, <1>9, DelUpSteady
  <2>2. job[t].op = "delUp" /\ Len(path[t]) \in 1 .. Len(job[t].word) /\ Len(job[t].word) \in Nat
    BY <1>1, <1>9, InCall DEF DelUp
  <2>3. CASE ~Tidy(job[t].word)
    <3>1. Pending(t)' = Pending(t)
      BY <2>1, <2>3 DEF Pending, NoJob, Tidy
    <3> QED
      BY <1>2, <2>1, <2>3, <3>1, Unmoved
  <2>4. ASSUME Tidy(job[t].word)
        PROVE  Pending(t)' = IF Len(path[t]) = 1 THEN Abstract!NoCall ELSE [op |-> "deleted", word |-> job[t].word]
    <3>1. CASE Len(path[t]) = 1
      BY <2>1, <3>1 DEF Pending, NoJob, Abstract!NoCall, Tidy
    <3>2. CASE Len(path[t]) # 1
      BY <2>1, <2>2, <2>4, <3>2 DEF Pending
    <3> QED
      BY <3>1, <3>2
  <2>5. CASE Tidy(job[t].word) /\ Len(path[t]) = Len(job[t].word)
    <3>1. Pending(t) = [op |-> "del", word |-> job[t].word]
      BY <2>2, <2>5 DEF Pending
    <3>2. Pending(t).op = "del" /\ Pending(t).word = job[t].word
          /\ [Pending(t) EXCEPT !.op = "deleted"] = [op |-> "deleted", word |-> job[t].word]
      BY <3>1
    <3>3. PICK call \in {Abstract!NoCall, [Pending(t) EXCEPT !.op = "deleted"]} : Pending(t)' = call
      BY <2>4, <2>5, <3>2
    <3>4. Abstract!Become(t, call)
      BY <2>1, <3>3, Becomes
    <3>5. Abstract!DelWord(t)
      BY <1>2, <1>3, <2>1, <2>5, <3>2, <3>3, <3>4 DEF Abstract!DelWord, Tidied
    <3> QED
      BY <3>5 DEF Abstract!WordNext
  <2>6. CASE Tidy(job[t].word) /\ Len(path[t]) # Len(job[t].word)
    <3>1. Pending(t) = [op |-> "deleted", word |-> job[t].word] /\ Tidied' = Tidied
      BY <1>2, <2>1, <2>2, <2>6 DEF Pending
    <3>2. CASE Len(path[t]) = 1
      <4>1. Abstract!Become(t, Abstract!NoCall)
        BY <2>1, <2>4, <2>6, <3>2, Becomes
      <4>2. Abstract!DelReturns(t)
        BY <3>1, <4>1 DEF Abstract!DelReturns, Tidied
      <4> QED
        BY <4>2 DEF Abstract!WordNext
    <3>3. CASE Len(path[t]) # 1
      BY <2>1, <2>4, <2>6, <3>1, <3>3, Unmoved
    <3> QED
      BY <3>2, <3>3
  <2> QED
    BY <2>3, <2>5, <2>6
<1>10. ASSUME NEW t \in Thread, DelMiss(t) PROVE Abstract!WordNext \/ UNCHANGED <<Tidied, P>>
  <2>1. Held' = Held /\ Others(t) /\ job'[t] = NoJob
    BY <1>1, <1>10, DelMissSteady
  <2>2. Pending(t)' = Abstract!NoCall
    BY <2>1 DEF Pending, NoJob, Abstract!NoCall, Tidy
  <2>3. CASE ~Tidy(job[t].word)
    <3>1. Pending(t)' = Pending(t)
      BY <2>2, <2>3, Seen
    <3> QED
      BY <1>2, <2>1, <3>1, Unmoved
  <2>4. CASE Tidy(job[t].word)
    <3>1. Pending(t) = job[t] /\ job[t].op = "del"
      BY <1>10, <2>4, Seen DEF DelMiss
    <3>2. job[t].word \notin Held
      BY <1>1, <1>10, <2>4, MissFacts
    <3>3. Abstract!Become(t, Abstract!NoCall)
      BY <2>1, <2>2, Becomes
    <3>4. Abstract!DelWord(t)
      BY <1>2, <1>3, <2>1, <3>1, <3>2, <3>3 DEF Abstract!DelWord, Tidied
    <3> QED
      BY <3>4 DEF Abstract!WordNext
  <2> QED
    BY <2>3, <2>4
<1>11. CASE UNCHANGED vars
  <2>1. Held' = Held
    BY <1>11 DEF vars, heap, Held, Linked, Kids
  <2>2. P' = P
    BY <1>11 DEF vars, Pending
  <2> QED
    BY <1>2, <2>1, <2>2
<1> QED
  BY <1>4, <1>5, <1>6, <1>7, <1>8, <1>9, <1>10, <1>11 DEF Next

\* Below the Apart runes Add and Del of goroutines that share a trie are
\* linearizable, whatever other words are added and deleted at the same time:
\* every call takes effect at one moment, on one set of words.
THEOREM ImplementsWordSet == Spec => SetRefinement
<1>1. Init => Abstract!WordInit
  <2>1. SUFFICES ASSUME Init PROVE Tidied = {} /\ [t \in Thread |-> Pending(t)] = [t \in Thread |-> Abstract!NoCall]
    BY DEF Abstract!WordInit, Tidied
  <2>2. PICK p \in Scripts : Steady(p) /\ Held = {}
    BY <2>1, InvInit
  <2>3. Tidied = {}
    BY <2>2, ReadAllIsHeld DEF Steady, Tidied
  <2>4. \A t \in Thread : Pending(t) = Abstract!NoCall
    BY <2>1 DEF Init, Pending, NoJob, Abstract!NoCall, Tidy
  <2> QED
    BY <2>3, <2>4
<1>2. IInv /\ IInv' /\ [Next]_vars => [Abstract!WordNext]_<<{w \in ReadAll : Tidy(w)}, [t \in Thread |-> Pending(t)]>>
  BY RefineStep DEF Tidied
<1>3. QED
  BY <1>1, <1>2, Invariant, PTL DEF Spec, SetRefinement, Abstract!WordSpec

=============================================================================

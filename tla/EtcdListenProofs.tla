-------------------------- MODULE EtcdListenProofs --------------------------
(***************************************************************************)
(* TLAPS proofs about EtcdListen, for any number of keys, nodes, files and *)
(* watch goroutines and whatever calls the caller makes: the maps of the   *)
(* package agree between calls, although no lock spans two of them, and a  *)
(* key that some file mentions keeps its watch.                            *)
(***************************************************************************)
EXTENDS EtcdListen, SequenceTheorems, WellFoundedInduction, TLAPS

-----------------------------------------------------------------------------
(* The inductive invariant *)

\* The files whose names stand in namesWithOutputFile: the added ones, but
\* for the one that a call has entered into outputFileHasKeys only, or has
\* taken out of it only.
Entered == CASE ctl.call = "addNames"   -> hasKeys \ {ctl.file}
             [] ctl.call = "emptyNames" -> hasKeys \cup {ctl.file}
             [] OTHER -> hasKeys

\* namesWithOutputFile is what Entered makes it, in the middle of a call too.
NamesEntered == \A w \in Key : names[w] = {f \in Entered : w \in KeysOf(f)}

\* A call finds the file as it was when the call looked.
FileAsSeen ==
    /\ ctl.call \in {"addKeys", "emptyNames"} => ctl.file \notin hasKeys
    /\ ctl.call \in {"addNames", "emptyKeys"} => ctl.file \in hasKeys

\* Only keys some file mentions are watched, or about to be.
WatchesWanted ==
    /\ \A w \in Key : handler[w] # None => names[w] # {}
    /\ ctl.call = "watch" => \A w \in ctl.todo : names[w] # {}

MapsInv == TypeOK /\ NamesEntered /\ FileAsSeen /\ WatchesWanted

-----------------------------------------------------------------------------
(* What the operators return *)

\* The first of the changes a goroutine has not seen is one of them.
LEMMA MinIn ==
    ASSUME NEW S \in SUBSET Nat, S # {}
    PROVE  Min(S) \in S
<1> DEFINE R == {ss \in Nat \X Nat : ss[1] < ss[2]}
<1>1. IsWellFoundedOn(R, Nat)
  BY NatLessThanWellFounded DEF OpToRel
<1>2. \A x, y \in S : <<y, x>> \notin R => x <= y
  OBVIOUS
<1> HIDE DEF R
<1>3. \E x \in S : \A y \in S : ~(<<y, x>> \in R)
  BY <1>1, WFMin
<1>4. \E x \in S : \A y \in S : x <= y
  BY <1>2, <1>3
<1> QED
  BY <1>4 DEF Min

\* A goroutine's record is replaced by another.
LEMMA GorUpdate ==
    ASSUME TypeOK, NEW i \in Watchers, NEW g \in Goroutine, g.rev <= Len(hist),
           g.pc # "free" => g.key \in Key,
           gor' = [gor EXCEPT ![i] = g], UNCHANGED hist
    PROVE  /\ gor' \in [Watchers -> Goroutine]
           /\ \A j \in Watchers : /\ gor'[j].rev <= Len(hist')
                                  /\ gor'[j].pc # "free" => gor'[j].key \in Key
<1>1. gor \in [Watchers -> Goroutine]
  BY DEF TypeOK
<1>2. gor' \in [Watchers -> Goroutine]
  BY <1>1
<1>3. \A j \in Watchers : gor'[j] = IF j = i THEN g ELSE gor[j]
  BY <1>1
<1>4. \A j \in Watchers : gor[j].rev <= Len(hist) /\ (gor[j].pc # "free" => gor[j].key \in Key)
  BY DEF TypeOK
<1> QED
  BY <1>2, <1>3, <1>4

\* A refresh begins with the files that mention the key.
LEMMA RefreshType ==
    ASSUME TypeOK, NEW t \in Thread, NEW w \in Key, Refresh(t, w)
    PROVE  ref' \in [Thread -> Refreshing]
<1>1. [NoRefresh EXCEPT !.key = w, !.due = names[w]] \in Refreshing
  BY DEF TypeOK, NoRefresh, Refreshing
<1> QED
  BY <1>1 DEF TypeOK, Refresh

\* One node's value is applied; what does not parse is not stored.
LEMMA ApplyType ==
    ASSUME TypeOK, NEW w \in Key, NEW n \in Node, NEW v \in Value, Apply(w, n, v)
    PROVE  settings' \in [Key -> [Node -> Ver \cup {None}]]
BY DEF TypeOK, Apply, Value

\* A file is rewritten with its own rows, and they list nodes.
LEMMA RewriteType ==
    ASSUME TypeOK, NEW f \in File, NEW w
    PROVE  LET m == Rewrite(f, w)
           IN /\ DOMAIN m \subseteq {r.sname : r \in Conf[f]}
              /\ \A s \in DOMAIN m : m[s] \subseteq Node
<1> DEFINE old == IF fileMap[f] = None THEN << >> ELSE fileMap[f]
           new == IF f \in hasKeys THEN Rows(f, w) ELSE {}
           names0 == {r.sname : r \in new}
           m == Rewrite(f, w)
<1>1. /\ DOMAIN old \subseteq {r.sname : r \in Conf[f]}
      /\ \A s \in DOMAIN old : old[s] \subseteq Node
  BY DEF TypeOK, RowsOnly
<1>2. names0 \subseteq {r.sname : r \in Conf[f]}
  BY DEF Rows
<1>3. m = [s \in DOMAIN old \cup names0 |->
             IF \E r \in new : r.sname = s
             THEN Listed(CHOOSE r \in new : r.sname = s, settings[w])
             ELSE old[s]]
  BY DEF Rewrite
<1> HIDE DEF old, new, m
<1>4. DOMAIN m = DOMAIN old \cup names0
  BY <1>3
<1>5. ASSUME NEW s \in DOMAIN m PROVE m[s] \subseteq Node
  <2>1. \A r, x : Listed(r, x) \subseteq Node
    BY DEF Listed
  <2>2. CASE \E r \in new : r.sname = s
    BY <1>3, <1>4, <1>5, <2>1, <2>2
  <2>3. CASE ~\E r \in new : r.sname = s
    BY <1>1, <1>3, <1>4, <1>5, <2>3
  <2> QED
    BY <2>2, <2>3
<1>6. DOMAIN m \subseteq {r.sname : r \in Conf[f]}
  BY <1>1, <1>2, <1>4
<1> QED
  BY <1>5, <1>6 DEF m

\* The map of one file is replaced.
LEMMA RowsUpdate ==
    ASSUME NEW m, RowsOnly(m), NEW f \in File, NEW x,
           \/ x = None
           \/ /\ DOMAIN x \subseteq {r.sname : r \in Conf[f]}
              /\ \A s \in DOMAIN x : x[s] \subseteq Node
    PROVE  RowsOnly([m EXCEPT ![f] = x])
BY DEF RowsOnly

-----------------------------------------------------------------------------
(* Type correctness *)

LEMMA InitType == Init => TypeOK
<1> SUFFICES ASSUME Init PROVE TypeOK
  OBVIOUS
<1>1. Free \in Goroutine /\ Free.rev = 0 /\ Free.pc = "free"
  <2>1. << >> \in [{} -> Value]
    OBVIOUS
  <2>2. << >> \in UNION {[D -> Value] : D \in SUBSET Node}
    BY <2>1
  <2> QED
    BY <2>2 DEF Free, Goroutine
<1>2. /\ store \in [Key -> [Node -> Value]] /\ script \in Seq(Call)
      /\ hist \in Seq(Event) /\ Len(hist) = 0
  BY ConfAssumption DEF Init
<1>3. /\ settings \in [Key -> [Node -> Ver \cup {None}]] /\ hasKeys \subseteq File
      /\ names \in [Key -> SUBSET File] /\ handler \in [Key -> Watchers \cup {None}]
  BY DEF Init, NoNodes
<1>4. RowsOnly(fileMap) /\ RowsOnly(out)
  BY DEF Init, RowsOnly
<1>5. /\ gor \in [Watchers -> Goroutine]
      /\ \A i \in Watchers : /\ gor[i].rev <= Len(hist)
                             /\ gor[i].pc # "free" => gor[i].key \in Key
  BY <1>1, <1>2 DEF Init
<1>6. ref \in [Thread -> Refreshing]
  BY DEF Init, NoRefresh, Refreshing
<1>7. ctl \in Calling /\ (ctl.call \in Grouping => ctl.file \in File)
  BY DEF Init, Idle, Calling, Grouping
<1> QED
  BY <1>2, <1>3, <1>4, <1>5, <1>6, <1>7 DEF TypeOK

LEMMA EtcdChangeType ==
    ASSUME TypeOK, NEW c \in Changes, EtcdChange(c[1], c[2], c[3])
    PROVE  TypeOK'
<1> DEFINE e == [key |-> c[1], node |-> c[2], val |-> c[3]]
<1>1. c[1] \in Key /\ c[2] \in Node /\ c[3] \in Value
  BY ConfAssumption
<1>2. e \in Event
  BY <1>1 DEF Event
<1>3. store' \in [Key -> [Node -> Value]]
  BY <1>1 DEF TypeOK, EtcdChange
<1>4. hist \in Seq(Event) /\ hist' = Append(hist, e)
  BY DEF TypeOK, EtcdChange
<1> HIDE DEF e
<1>5. hist' \in Seq(Event) /\ Len(hist') = Len(hist) + 1 /\ Len(hist) \in Nat
  BY <1>2, <1>4
<1>6. \A i \in Watchers : gor[i].rev \in Nat /\ gor[i].rev <= Len(hist)
  BY DEF TypeOK, Goroutine
<1>7. \A i \in Watchers : gor[i].rev <= Len(hist')
  BY <1>5, <1>6
<1> QED
  BY <1>3, <1>5, <1>7 DEF TypeOK, EtcdChange, groups

LEMMA RefreshStepType ==
    ASSUME TypeOK, NEW t \in Thread, RefreshStep(t)
    PROVE  TypeOK'
<1> USE DEF etcd, groups
<1>1. ref \in [Thread -> Refreshing] /\ ref[t] \in Refreshing /\ ref[t].key \in Key \cup {None}
      /\ ref[t].at \in File \cup {None}
  BY DEF TypeOK, Refreshing
<1>2. CASE RefreshNext(t)
  <2>1. ASSUME NEW f \in names[ref[t].key], ref[t].key # None, ref' = [ref EXCEPT ![t].at = f]
        PROVE  ref' \in [Thread -> Refreshing]
    <3>1. f \in File
      BY <1>1, <2>1 DEF TypeOK
    <3>2. [ref[t] EXCEPT !.at = f] \in Refreshing
      BY <1>1, <3>1 DEF Refreshing
    <3> QED
      BY <1>1, <2>1, <3>2
  <2>2. ASSUME ref' = [ref EXCEPT ![t] = NoRefresh]
        PROVE  ref' \in [Thread -> Refreshing]
    BY <1>1, <2>2 DEF NoRefresh, Refreshing
  <2>3. ref' \in [Thread -> Refreshing]
    BY <1>2, <2>1, <2>2 DEF RefreshNext
  <2> QED
    BY <1>2, <2>3 DEF RefreshNext, TypeOK
<1>3. CASE RefreshFile(t)
  <2> DEFINE f == ref[t].at
             m == Rewrite(f, ref[t].key)
  <2>1. /\ f \in File
        /\ fileMap' = [fileMap EXCEPT ![f] = m] /\ out' = [out EXCEPT ![f] = fileMap'[f]]
        /\ UNCHANGED <<etcd, groups, settings, handler, gor, script, ctl>>
    BY <1>1, <1>3 DEF RefreshFile
  <2>2. /\ DOMAIN m \subseteq {r.sname : r \in Conf[f]}
        /\ \A s \in DOMAIN m : m[s] \subseteq Node
    BY <2>1, RewriteType
  <2>3. ref' \in [Thread -> Refreshing]
    <3>1. [[ref[t] EXCEPT !.at = None] EXCEPT !.done = @ \cup {f}] \in Refreshing
      BY <1>1, <2>1 DEF Refreshing
    <3>2. ref' = [ref EXCEPT ![t] = [[ref[t] EXCEPT !.at = None] EXCEPT !.done = @ \cup {f}]]
      BY <1>1, <1>3 DEF RefreshFile, Refreshing
    <3> QED
      BY <1>1, <3>1, <3>2
  <2> HIDE DEF f, m
  <2>4. RowsOnly(fileMap) /\ RowsOnly(out) /\ fileMap'[f] = m
    BY <2>1 DEF TypeOK, RowsOnly
  <2>5. RowsOnly(fileMap') /\ RowsOnly(out')
    BY <2>1, <2>2, <2>4, RowsUpdate
  <2> QED
    BY <2>1, <2>3, <2>5 DEF TypeOK, RowsOnly
<1> QED
  BY <1>2, <1>3 DEF RefreshStep

\* A goroutine that is not free has a key.
LEMMA GorFacts ==
    ASSUME TypeOK, NEW i \in Watchers
    PROVE  /\ gor \in [Watchers -> Goroutine] /\ gor[i] \in Goroutine
           /\ gor[i].rev \in Nat /\ gor[i].rev <= Len(hist) /\ Len(hist) \in Nat
           /\ gor[i].pc # "free" => gor[i].key \in Key
           /\ i \in Thread
BY DEF TypeOK, Goroutine, Thread

\* The fields of a goroutine's record that its steps assign.
LEMMA GorFields ==
    ASSUME NEW g \in Goroutine, NEW r \in Nat, NEW p \in {"set", "watch", "done", "failed"},
           NEW b \in BOOLEAN, NEW l \in UNION {[D -> Value] : D \in SUBSET Node}
    PROVE  /\ [g EXCEPT !.rev = r, !.left = l, !.pc = p, !.stray = b] \in Goroutine
           /\ [g EXCEPT !.left = l, !.stray = b] \in Goroutine
           /\ [g EXCEPT !.rev = r, !.stray = b] \in Goroutine
           /\ [g EXCEPT !.pc = p] \in Goroutine
<1> DEFINE L == UNION {[D -> Value] : D \in SUBSET Node}
<1>1. Goroutine = [pc : {"free", "get", "set", "watch", "done", "failed"}, key : Key \cup {None},
                   left : L, rev : Nat, cancelled : BOOLEAN, stray : BOOLEAN]
  BY DEF Goroutine
<1> HIDE DEF L
<1>2. l \in L
  BY DEF L
<1>3. [g EXCEPT !.rev = r, !.left = l, !.pc = p, !.stray = b] \in Goroutine
  BY <1>1, <1>2
<1>4. [g EXCEPT !.left = l, !.stray = b] \in Goroutine
  BY <1>1, <1>2
<1> QED
  BY <1>1, <1>2, <1>3, <1>4

\* A step that only moves a goroutine on.
LEMMA MoveType ==
    ASSUME TypeOK, NEW i \in Watchers, gor[i].pc # "free",
           NEW p \in {"set", "watch", "done", "failed"},
           gor' = [gor EXCEPT ![i].pc = p], UNCHANGED hist
    PROVE  /\ gor' \in [Watchers -> Goroutine]
           /\ \A j \in Watchers : /\ gor'[j].rev <= Len(hist')
                                  /\ gor'[j].pc # "free" => gor'[j].key \in Key
<1> DEFINE g == [gor[i] EXCEPT !.pc = p]
<1>1. /\ gor[i] \in Goroutine /\ gor[i].key \in Key /\ gor[i].rev <= Len(hist)
      /\ gor \in [Watchers -> Goroutine]
  BY GorFacts
<1>2. g \in Goroutine
  <2>1. \E l : l \in UNION {[D -> Value] : D \in SUBSET Node}
    BY <1>1 DEF Goroutine
  <2> QED
    BY <1>1, <2>1, GorFields
<1>3. g.key = gor[i].key /\ g.rev = gor[i].rev
  BY <1>1 DEF Goroutine
<1>4. gor' = [gor EXCEPT ![i] = g]
  BY <1>1
<1> HIDE DEF g
<1> QED
  BY <1>1, <1>2, <1>3, <1>4, GorUpdate

LEMMA GetType ==
    ASSUME TypeOK, NEW i \in Watchers, Get(i)
    PROVE  TypeOK'
<1> USE DEF etcd, groups
<1> PICK w \in Key : w = gor[i].key
  BY GorFacts DEF Get, At
<1> DEFINE nodes == {n \in Node : store[w][n] # None}
           l == [n \in nodes |-> store[w][n]]
           p == IF nodes = {} THEN "watch" ELSE "set"
           b == Strays(i)
           g == [gor[i] EXCEPT !.rev = Len(hist), !.left = l, !.pc = p, !.stray = b]
<1>1. /\ gor' = [gor EXCEPT ![i].rev = Len(hist), ![i].left = l, ![i].pc = p, ![i].stray = b]
      /\ \/ settings' = [settings EXCEPT ![w] = NoNodes] /\ Refresh(i, w)
         \/ UNCHANGED <<settings, ref>>
      /\ UNCHANGED <<store, hist, hasKeys, names, fileMap, handler, out, script, ctl>>
  BY DEF Get
<1>2. gor[i] \in Goroutine /\ gor \in [Watchers -> Goroutine] /\ Len(hist) \in Nat /\ i \in Thread
  BY GorFacts
<1>3. l \in UNION {[D -> Value] : D \in SUBSET Node}
  <2>1. store[w] \in [Node -> Value]
    BY DEF TypeOK
  <2>2. nodes \in SUBSET Node /\ l \in [nodes -> Value]
    BY <2>1
  <2> QED
    BY <2>2
<1>4. p \in {"set", "watch", "done", "failed"}
  OBVIOUS
<1>5. b \in BOOLEAN
  BY <1>2 DEF Strays, Goroutine
<1>6. gor' = [gor EXCEPT ![i] = g]
  BY <1>1, <1>2
<1> HIDE DEF nodes, l, p, b
<1>7. g \in Goroutine
  BY <1>2, <1>3, <1>4, <1>5, GorFields
<1>8. g.rev = Len(hist) /\ g.key = w
  BY <1>2 DEF Goroutine
<1> HIDE DEF g
<1>9. /\ gor' \in [Watchers -> Goroutine]
      /\ \A j \in Watchers : /\ gor'[j].rev <= Len(hist')
                             /\ gor'[j].pc # "free" => gor'[j].key \in Key
  <2>1. g.rev <= Len(hist) /\ (g.pc # "free" => g.key \in Key)
    BY <1>2, <1>8
  <2>2. UNCHANGED hist
    BY <1>1
  <2> QED
    BY <1>6, <1>7, <2>1, <2>2, GorUpdate
<1>10. settings' \in [Key -> [Node -> Ver \cup {None}]]
  <2>1. NoNodes \in [Node -> Ver \cup {None}]
    BY DEF NoNodes
  <2>2. settings \in [Key -> [Node -> Ver \cup {None}]]
    BY DEF TypeOK
  <2>3. settings' = settings \/ settings' = [settings EXCEPT ![w] = NoNodes]
    BY <1>1
  <2> QED
    BY <2>1, <2>2, <2>3
<1>11. ref' \in [Thread -> Refreshing]
  BY <1>1, <1>2, RefreshType DEF TypeOK
<1> QED
  BY <1>1, <1>9, <1>10, <1>11 DEF TypeOK

LEMMA SetNodeType ==
    ASSUME TypeOK, NEW i \in Watchers, SetNode(i)
    PROVE  TypeOK'
<1> USE DEF etcd, groups
<1> DEFINE b == Strays(i)
<1>1. gor[i] \in Goroutine /\ gor \in [Watchers -> Goroutine] /\ gor[i].key \in Key
      /\ gor[i].rev <= Len(hist)
  BY GorFacts DEF SetNode, At
<1> PICK n \in DOMAIN gor[i].left :
          /\ Apply(gor[i].key, n, gor[i].left[n])
          /\ gor' = [gor EXCEPT ![i].left = [k \in DOMAIN @ \ {n} |-> @[k]], ![i].stray = b]
  BY DEF SetNode
<1>2. PICK D \in SUBSET Node : gor[i].left \in [D -> Value]
  BY <1>1 DEF Goroutine
<1>3. n \in Node /\ gor[i].left[n] \in Value
  BY <1>2
<1>4. settings' \in [Key -> [Node -> Ver \cup {None}]]
  BY <1>1, <1>3, ApplyType
<1> DEFINE l == [k \in DOMAIN gor[i].left \ {n} |-> gor[i].left[k]]
           g == [gor[i] EXCEPT !.left = l, !.stray = b]
<1>5. l \in UNION {[E -> Value] : E \in SUBSET Node}
  <2>1. D \ {n} \in SUBSET Node /\ l \in [D \ {n} -> Value]
    BY <1>2
  <2> QED
    BY <2>1
<1>6. b \in BOOLEAN
  BY <1>1 DEF Strays, Goroutine
<1>7. gor' = [gor EXCEPT ![i] = g]
  BY <1>1
<1> HIDE DEF l, b
<1>8. g \in Goroutine
  BY <1>1, <1>5, <1>6, GorFields
<1>9. g.rev = gor[i].rev /\ g.key = gor[i].key
  BY <1>1 DEF Goroutine
<1> HIDE DEF g
<1>10. UNCHANGED <<store, hist, hasKeys, names, fileMap, handler, out, ref, script, ctl>>
  BY DEF SetNode
<1>11. /\ gor' \in [Watchers -> Goroutine]
       /\ \A j \in Watchers : /\ gor'[j].rev <= Len(hist')
                              /\ gor'[j].pc # "free" => gor'[j].key \in Key
  BY <1>1, <1>7, <1>8, <1>9, <1>10, GorUpdate
<1> QED
  BY <1>4, <1>10, <1>11 DEF TypeOK

LEMMA WatchEventType ==
    ASSUME TypeOK, NEW i \in Watchers, WatchEvent(i)
    PROVE  TypeOK'
<1> USE DEF etcd, groups
<1> DEFINE m == Min(Pending(i))
           b == Strays(i)
           g == [gor[i] EXCEPT !.rev = m, !.stray = b]
<1>1. /\ gor[i] \in Goroutine /\ gor \in [Watchers -> Goroutine] /\ gor[i].key \in Key
      /\ gor[i].rev \in Nat /\ Len(hist) \in Nat /\ i \in Thread
  BY GorFacts DEF WatchEvent, At
<1>2. m \in Pending(i)
  <2>1. Pending(i) \in SUBSET Nat /\ Pending(i) # {}
    BY <1>1 DEF Pending, WatchEvent
  <2> QED
    BY <2>1, MinIn
<1>3. m \in 1 .. Len(hist)
  BY <1>1, <1>2 DEF Pending
<1>4. m \in Nat /\ m <= Len(hist)
  BY <1>1, <1>3
<1>5. hist[m] \in Event
  <2>1. hist \in Seq(Event)
    BY DEF TypeOK
  <2> QED
    BY <1>3, <2>1, ElementOfSeq
<1>6. /\ UNCHANGED <<store, hist, hasKeys, names, fileMap, handler, out, script, ctl>>
      /\ Apply(hist[m].key, hist[m].node, hist[m].val) /\ Refresh(i, hist[m].key)
      /\ gor' = [gor EXCEPT ![i].rev = m, ![i].stray = b]
  BY DEF WatchEvent
<1>7. hist[m].key \in Key /\ hist[m].node \in Node /\ hist[m].val \in Value
  BY <1>5 DEF Event
<1>8. b \in BOOLEAN
  BY <1>1 DEF Strays, Goroutine
<1>9. gor' = [gor EXCEPT ![i] = g]
  BY <1>1, <1>6
<1> HIDE DEF m, b
<1>10. g \in Goroutine
  <2>1. \E l : l \in UNION {[D -> Value] : D \in SUBSET Node}
    BY <1>1 DEF Goroutine
  <2> QED
    BY <1>1, <1>4, <1>8, <2>1, GorFields
<1>11. g.rev = m /\ g.key = gor[i].key
  BY <1>1 DEF Goroutine
<1> HIDE DEF g
<1>12. /\ gor' \in [Watchers -> Goroutine]
       /\ \A j \in Watchers : /\ gor'[j].rev <= Len(hist')
                              /\ gor'[j].pc # "free" => gor'[j].key \in Key
  <2>1. g.rev <= Len(hist) /\ (g.pc # "free" => g.key \in Key) /\ UNCHANGED hist
    BY <1>1, <1>4, <1>6, <1>11
  <2> QED
    BY <1>9, <1>10, <2>1, GorUpdate
<1>13. settings' \in [Key -> [Node -> Ver \cup {None}]] /\ ref' \in [Thread -> Refreshing]
  BY <1>1, <1>6, <1>7, ApplyType, RefreshType
<1> QED
  BY <1>6, <1>12, <1>13 DEF TypeOK

LEMMA WatcherType ==
    ASSUME TypeOK, NEW i \in Watchers, WatcherStep(i) \/ WatcherFails(i)
    PROVE  TypeOK'
<1> USE DEF etcd, groups
<1>1. CASE SetOk(i)
  <2>1. /\ gor[i].pc # "free" /\ gor' = [gor EXCEPT ![i].pc = "watch"]
        /\ Refresh(i, gor[i].key)
        /\ UNCHANGED <<store, hist, hasKeys, names, fileMap, settings, handler, out, script, ctl>>
    BY <1>1 DEF SetOk, At
  <2>2. ref' \in [Thread -> Refreshing]
    BY <2>1, GorFacts, RefreshType
  <2>3. /\ gor' \in [Watchers -> Goroutine]
        /\ \A j \in Watchers : /\ gor'[j].rev <= Len(hist')
                               /\ gor'[j].pc # "free" => gor'[j].key \in Key
    BY <2>1, MoveType
  <2> QED
    BY <2>1, <2>2, <2>3 DEF TypeOK
<1>2. CASE WatchEnds(i) \/ GetFails(i) \/ WatchFails(i)
  <2>1. PICK p \in {"set", "watch", "done", "failed"} : gor' = [gor EXCEPT ![i].pc = p]
    BY <1>2 DEF WatchEnds, GetFails, WatchFails
  <2>2. /\ gor[i].pc # "free"
        /\ UNCHANGED <<store, hist, hasKeys, names, fileMap, settings, handler, out, ref, script, ctl>>
    BY <1>2 DEF WatchEnds, GetFails, WatchFails, At
  <2>3. /\ gor' \in [Watchers -> Goroutine]
        /\ \A j \in Watchers : /\ gor'[j].rev <= Len(hist')
                               /\ gor'[j].pc # "free" => gor'[j].key \in Key
    BY <2>1, <2>2, MoveType
  <2> QED
    BY <2>2, <2>3 DEF TypeOK
<1> QED
  BY <1>1, <1>2, GetType, SetNodeType, WatchEventType DEF WatcherStep, WatcherFails

\* The caller enters the next section of a call.
LEMMA EnterType ==
    ASSUME NEW c \in {"none", "watch", "export"} \cup Grouping, NEW f \in File \cup {None},
           NEW T \in SUBSET Key, Enter(c, f, T)
    PROVE  ctl' \in Calling /\ ctl'.call = c /\ ctl'.file = f /\ ctl'.todo = T
BY DEF Enter, Calling

LEMMA IdleType == Idle \in Calling /\ Idle.call = "none"
BY DEF Idle, Calling

LEMMA CtlFacts ==
    ASSUME TypeOK
    PROVE  /\ ctl \in Calling /\ ctl.todo \subseteq Key /\ ctl.file \in File \cup {None}
           /\ ctl.call \in Grouping => ctl.file \in File
BY DEF TypeOK, Calling

\* The next call of the script, and what the caller makes of it.
LEMMA BeginEffect ==
    ASSUME TypeOK, Begin
    PROVE  /\ ctl = Idle /\ script' \in Seq(Call)
           /\ UNCHANGED <<store, hist, hasKeys, names, fileMap, settings, handler, out, gor, ref>>
           /\ \/ Enter("none", None, {})
              \/ \E f \in File \ hasKeys : Enter("addKeys", f, {})
              \/ \E f \in File : Enter("emptyMap", f, {})
              \/ \E c \in {"watch", "export"} : Enter(c, None, {w \in Key : names[w] # {}})
<1>1. Head(script) \in Call /\ script' \in Seq(Call)
  <2>1. script \in Seq(Call) /\ script # << >> /\ script' = Tail(script)
    BY DEF TypeOK, Begin
  <2> QED
    BY <2>1, HeadTailProperties
<1> PICK h : h = Head(script)
  OBVIOUS
<1>2. \/ h[1] \in {"add", "empty"} /\ h[2] \in File
      \/ h[1] \in {"watch", "export"}
  BY <1>1 DEF Call
<1>3. CASE h[1] = "add"
  BY <1>1, <1>2, <1>3 DEF Begin, etcd, groups
<1>4. CASE h[1] = "empty"
  BY <1>1, <1>2, <1>4 DEF Begin, etcd, groups
<1>5. CASE h[1] = "watch"
  BY <1>1, <1>5 DEF Begin, etcd, groups
<1>6. CASE h[1] = "export"
  BY <1>1, <1>6 DEF Begin, etcd, groups
<1> QED
  BY <1>2, <1>3, <1>4, <1>5, <1>6

LEMMA BeginKeeps == ASSUME MapsInv, Begin PROVE MapsInv'
<1> USE DEF MapsInv
<1>1. /\ ctl = Idle /\ script' \in Seq(Call)
      /\ UNCHANGED <<store, hist, hasKeys, names, fileMap, settings, handler, out, gor, ref>>
  BY BeginEffect
<1>2. NamesEntered <=> \A w \in Key : names[w] = {f \in hasKeys : w \in KeysOf(f)}
  BY <1>1, IdleType DEF NamesEntered, Entered
<1>3. ASSUME NEW c \in {"none", "watch", "export", "addKeys", "emptyMap"},
             NEW f \in File \cup {None}, NEW T \in SUBSET Key, Enter(c, f, T),
             c \in {"addKeys", "emptyMap"} => f \in File,
             c = "addKeys" => f \notin hasKeys,
             c = "watch" => \A w \in T : names[w] # {}
      PROVE  MapsInv'
  <2>1. ctl' \in Calling /\ ctl'.call = c /\ ctl'.file = f /\ ctl'.todo = T
    BY <1>3, EnterType DEF Grouping
  <2>2. TypeOK'
    BY <1>1, <1>3, <2>1 DEF TypeOK, Grouping
  <2>3. NamesEntered'
    BY <1>1, <1>2, <2>1 DEF NamesEntered, Entered
  <2>4. FileAsSeen' /\ WatchesWanted'
    BY <1>1, <1>3, <2>1 DEF FileAsSeen, WatchesWanted
  <2> QED
    BY <2>2, <2>3, <2>4
<1>4. CASE Enter("none", None, {})
  BY <1>3, <1>4
<1>5. CASE \E f \in File \ hasKeys : Enter("addKeys", f, {})
  BY <1>3, <1>5
<1>6. CASE \E f \in File : Enter("emptyMap", f, {})
  BY <1>3, <1>6
<1>7. CASE \E c \in {"watch", "export"} : Enter(c, None, {w \in Key : names[w] # {}})
  BY <1>3, <1>7
<1> QED
  BY <1>4, <1>5, <1>6, <1>7, BeginEffect

LEMMA AddKeysKeeps == ASSUME MapsInv, AddKeys PROVE MapsInv'
<1> USE DEF MapsInv
<1> PICK f \in File : f = ctl.file
  BY CtlFacts DEF AddKeys, Grouping
<1>1. /\ UNCHANGED <<store, hist, names, fileMap, settings, handler, out, gor, ref, script>>
      /\ hasKeys' = hasKeys \cup {f} /\ f \notin hasKeys /\ ctl.call = "addKeys"
      /\ Enter("addNames", f, {})
  BY DEF AddKeys, etcd, FileAsSeen
<1>2. ctl' \in Calling /\ ctl'.call = "addNames" /\ ctl'.file = f
  BY <1>1, EnterType DEF Grouping
<1>3. TypeOK'
  BY <1>1, <1>2 DEF TypeOK
<1>4. Entered = hasKeys /\ Entered' = hasKeys
  BY <1>1, <1>2 DEF Entered
<1>5. NamesEntered'
  BY <1>1, <1>4 DEF NamesEntered
<1> QED
  BY <1>1, <1>2, <1>3, <1>5 DEF FileAsSeen, WatchesWanted

LEMMA AddNamesKeeps == ASSUME MapsInv, AddNames PROVE MapsInv'
<1> USE DEF MapsInv
<1> PICK f \in File : f = ctl.file
  BY CtlFacts DEF AddNames, Grouping
<1>1. /\ UNCHANGED <<store, hist, hasKeys, fileMap, settings, handler, out, gor, ref, script>>
      /\ names' = [w \in Key |-> IF w \in KeysOf(f) THEN names[w] \cup {f} ELSE names[w]]
      /\ f \in hasKeys /\ ctl.call = "addNames" /\ Enter("addMap", f, {})
  BY DEF AddNames, etcd, FileAsSeen
<1>2. ctl' \in Calling /\ ctl'.call = "addMap" /\ ctl'.file = f
  BY <1>1, EnterType DEF Grouping
<1>3. names' \in [Key -> SUBSET File] /\ \A w \in Key : names[w] \subseteq names'[w]
  BY <1>1 DEF TypeOK
<1>4. TypeOK'
  BY <1>1, <1>2, <1>3 DEF TypeOK
<1>5. Entered = hasKeys \ {f} /\ Entered' = hasKeys
  BY <1>1, <1>2 DEF Entered
<1>6. NamesEntered'
  BY <1>1, <1>5 DEF NamesEntered
<1> QED
  BY <1>1, <1>2, <1>3, <1>4, <1>6 DEF FileAsSeen, WatchesWanted

LEMMA AddMapKeeps == ASSUME MapsInv, AddMap PROVE MapsInv'
<1> USE DEF MapsInv
<1> PICK f \in File : f = ctl.file
  BY CtlFacts DEF AddMap, Grouping
<1> DEFINE x == IF fileMap[f] = None THEN << >> ELSE fileMap[f]
<1>1. /\ UNCHANGED <<store, hist, hasKeys, names, settings, handler, out, gor, ref, script>>
      /\ fileMap' = [fileMap EXCEPT ![f] = x]
      /\ ctl.call = "addMap" /\ ctl' = Idle
  BY DEF AddMap, etcd, groups
<1>2. /\ DOMAIN x \subseteq {r.sname : r \in Conf[f]}
      /\ \A s \in DOMAIN x : x[s] \subseteq Node
  BY DEF TypeOK, RowsOnly
<1> HIDE DEF x
<1>3. RowsOnly(fileMap')
  <2>1. RowsOnly(fileMap)
    BY DEF TypeOK
  <2> QED
    BY <1>1, <1>2, <2>1, RowsUpdate
<1>4. TypeOK'
  BY <1>1, <1>3, IdleType DEF TypeOK, Grouping, RowsOnly
<1>5. Entered = hasKeys /\ Entered' = hasKeys
  BY <1>1, IdleType DEF Entered
<1>6. NamesEntered'
  BY <1>1, <1>5 DEF NamesEntered
<1> QED
  BY <1>1, <1>4, <1>6, IdleType DEF FileAsSeen, WatchesWanted

LEMMA EmptyMapKeeps == ASSUME MapsInv, EmptyMap PROVE MapsInv'
<1> USE DEF MapsInv
<1> PICK f \in File : f = ctl.file
  BY CtlFacts DEF EmptyMap, Grouping
<1>1. /\ UNCHANGED <<store, hist, hasKeys, names, settings, handler, out, gor, ref, script>>
      /\ fileMap' = [fileMap EXCEPT ![f] = None] /\ ctl.call = "emptyMap"
      /\ \/ f \in hasKeys /\ Enter("emptyKeys", f, {})
         \/ ctl' = Idle
  BY DEF EmptyMap, etcd, groups
<1>2. /\ ctl' \in Calling /\ ctl'.call \in {"none", "emptyKeys"}
      /\ ctl'.call = "emptyKeys" => ctl'.file = f /\ f \in hasKeys
  BY <1>1, EnterType, IdleType DEF Grouping
<1>3. RowsOnly(fileMap')
  <2>1. RowsOnly(fileMap)
    BY DEF TypeOK
  <2> QED
    BY <1>1, <2>1, RowsUpdate
<1>4. TypeOK'
  BY <1>1, <1>2, <1>3 DEF TypeOK, Grouping, RowsOnly
<1>5. Entered = hasKeys /\ Entered' = hasKeys
  BY <1>1, <1>2 DEF Entered
<1>6. NamesEntered'
  BY <1>1, <1>5 DEF NamesEntered
<1> QED
  BY <1>1, <1>2, <1>4, <1>6 DEF FileAsSeen, WatchesWanted

LEMMA EmptyKeysKeeps == ASSUME MapsInv, EmptyKeys PROVE MapsInv'
<1> USE DEF MapsInv
<1> PICK f \in File : f = ctl.file
  BY CtlFacts DEF EmptyKeys, Grouping
<1>1. /\ UNCHANGED <<store, hist, names, fileMap, settings, handler, out, gor, ref, script>>
      /\ hasKeys' = hasKeys \ {f} /\ f \in hasKeys /\ ctl.call = "emptyKeys"
      /\ Enter("emptyNames", f, {})
  BY DEF EmptyKeys, etcd, FileAsSeen
<1>2. ctl' \in Calling /\ ctl'.call = "emptyNames" /\ ctl'.file = f
  BY <1>1, EnterType DEF Grouping
<1>3. TypeOK'
  BY <1>1, <1>2 DEF TypeOK
<1>4. Entered = hasKeys /\ Entered' = hasKeys
  BY <1>1, <1>2 DEF Entered
<1>5. NamesEntered'
  BY <1>1, <1>4 DEF NamesEntered
<1> QED
  BY <1>1, <1>2, <1>3, <1>5 DEF FileAsSeen, WatchesWanted

\* What RemoveWatch does to the handlers and goroutines, whichever keys are
\* given up.
LEMMA CancelType ==
    ASSUME TypeOK, NEW U, UNCHANGED hist,
           handler' = [w \in Key |-> IF w \in U THEN None ELSE handler[w]],
           gor' = [i \in Watchers |-> IF \E w \in U : handler[w] = i
                                      THEN [gor[i] EXCEPT !.cancelled = TRUE] ELSE gor[i]]
    PROVE  /\ handler' \in [Key -> Watchers \cup {None}]
           /\ gor' \in [Watchers -> Goroutine]
           /\ \A j \in Watchers : /\ gor'[j].rev <= Len(hist')
                                  /\ gor'[j].pc # "free" => gor'[j].key \in Key
<1>1. handler' \in [Key -> Watchers \cup {None}]
  BY DEF TypeOK
<1>2. \A i \in Watchers : gor'[i] \in {gor[i], [gor[i] EXCEPT !.cancelled = TRUE]}
  OBVIOUS
<1>3. ASSUME NEW g \in Goroutine, NEW b \in BOOLEAN
      PROVE  LET c == [g EXCEPT !.cancelled = b]
             IN c \in Goroutine /\ c.rev = g.rev /\ c.pc = g.pc /\ c.key = g.key
  <2> DEFINE L == UNION {[D -> Value] : D \in SUBSET Node}
  <2>1. Goroutine = [pc : {"free", "get", "set", "watch", "done", "failed"}, key : Key \cup {None},
                     left : L, rev : Nat, cancelled : BOOLEAN, stray : BOOLEAN]
    BY DEF Goroutine
  <2> HIDE DEF L
  <2> QED
    BY <2>1
<1>4. \A i \in Watchers : /\ gor[i] \in Goroutine /\ gor[i].rev <= Len(hist)
                          /\ gor[i].pc # "free" => gor[i].key \in Key
  BY GorFacts
<1>5. \A i \in Watchers : /\ gor'[i] \in Goroutine /\ gor'[i].rev = gor[i].rev
                          /\ gor'[i].pc = gor[i].pc /\ gor'[i].key = gor[i].key
  BY <1>2, <1>3, <1>4
<1>6. gor' \in [Watchers -> Goroutine]
  <2>1. DOMAIN gor' = Watchers /\ gor' = [i \in Watchers |-> gor'[i]]
    OBVIOUS
  <2> QED
    BY <1>5, <2>1
<1> QED
  BY <1>1, <1>4, <1>5, <1>6

LEMMA EmptyNamesKeeps == ASSUME MapsInv, EmptyNames PROVE MapsInv'
<1> USE DEF MapsInv
<1> PICK f \in File : f = ctl.file
  BY CtlFacts DEF EmptyNames, Grouping
<1> DEFINE U == {w \in KeysOf(f) : names'[w] = {}}
<1>1. /\ UNCHANGED <<store, hist, hasKeys, fileMap, settings, out, ref, script>>
      /\ names' = [w \in Key |-> names[w] \ {f}]
      /\ f \notin hasKeys /\ ctl.call = "emptyNames" /\ ctl' = Idle
      /\ handler' = [w \in Key |-> IF w \in U THEN None ELSE handler[w]]
      /\ gor' = [i \in Watchers |-> IF \E w \in U : handler[w] = i
                                    THEN [gor[i] EXCEPT !.cancelled = TRUE] ELSE gor[i]]
  BY DEF EmptyNames, etcd, FileAsSeen
<1>2. names' \in [Key -> SUBSET File]
  BY <1>1 DEF TypeOK
<1>3. Entered = hasKeys \cup {f} /\ Entered' = hasKeys
  BY <1>1, IdleType DEF Entered
<1>4. NamesEntered'
  BY <1>1, <1>3 DEF NamesEntered
<1>5. WatchesWanted'
  <2>1. ASSUME NEW w \in Key, handler'[w] # None PROVE names'[w] # {}
    <3>1. w \notin U /\ handler[w] # None
      BY <1>1, <2>1
    <3>2. CASE w \in KeysOf(f)
      BY <3>1, <3>2
    <3>3. CASE w \notin KeysOf(f)
      <4>1. f \notin names[w]
        BY <1>3, <3>3 DEF NamesEntered
      <4>2. names'[w] = names[w]
        BY <1>1, <4>1
      <4> QED
        BY <3>1, <4>2 DEF WatchesWanted
    <3> QED
      BY <3>2, <3>3
  <2> QED
    BY <1>1, <2>1, IdleType DEF WatchesWanted
<1> HIDE DEF U
<1>6. /\ handler' \in [Key -> Watchers \cup {None}]
      /\ gor' \in [Watchers -> Goroutine]
      /\ \A j \in Watchers : /\ gor'[j].rev <= Len(hist')
                             /\ gor'[j].pc # "free" => gor'[j].key \in Key
  <2> PICK V : V = U
    OBVIOUS
  <2>1. /\ handler' = [w \in Key |-> IF w \in V THEN None ELSE handler[w]]
        /\ gor' = [i \in Watchers |-> IF \E w \in V : handler[w] = i
                                      THEN [gor[i] EXCEPT !.cancelled = TRUE] ELSE gor[i]]
        /\ UNCHANGED hist
    BY <1>1
  <2> QED
    BY <2>1, CancelType
<1>7. TypeOK'
  BY <1>1, <1>2, <1>6, IdleType DEF TypeOK, Grouping
<1> QED
  BY <1>1, <1>4, <1>5, <1>7, IdleType DEF FileAsSeen

\* A key is taken off the keys the call still has to visit.
LEMMA TodoType ==
    ASSUME TypeOK, NEW w, ctl' = [ctl EXCEPT !.todo = @ \ {w}]
    PROVE  ctl' \in Calling /\ ctl'.call = ctl.call /\ ctl'.file = ctl.file
           /\ ctl'.todo \subseteq ctl.todo
BY DEF TypeOK, Calling

\* What a call that changes no group leaves alone.
LEMMA GroupsKept ==
    ASSUME MapsInv, UNCHANGED <<hasKeys, names>>, ctl'.file = ctl.file \/ ctl'.call = "none",
           ctl.call \in {"watch", "export"}, ctl'.call \in {ctl.call, "none"}
    PROVE  NamesEntered' /\ FileAsSeen'
<1>1. Entered = hasKeys /\ Entered' = hasKeys
  BY DEF Entered
<1>2. NamesEntered'
  BY <1>1 DEF MapsInv, NamesEntered
<1> QED
  BY <1>2 DEF MapsInv, FileAsSeen

LEMMA AddWatchKeeps == ASSUME MapsInv, AddWatch PROVE MapsInv'
<1> USE DEF MapsInv
<1> PICK w \in ctl.todo :
          /\ ctl' = [ctl EXCEPT !.todo = @ \ {w}]
          /\ IF handler[w] # None THEN UNCHANGED <<handler, gor>>
             ELSE \E i \in Watchers :
                     /\ gor[i].pc = "free"
                     /\ \A j \in Watchers : gor[j].pc = "free" => i <= j
                     /\ handler' = [handler EXCEPT ![w] = i]
                     /\ gor' = [gor EXCEPT ![i] = [Free EXCEPT !.pc = "get", !.key = w]]
  BY DEF AddWatch
<1>1. /\ ctl.call = "watch" /\ w \in Key /\ names[w] # {}
      /\ UNCHANGED <<store, hist, hasKeys, names, fileMap, settings, out, ref, script>>
  BY CtlFacts DEF AddWatch, WatchesWanted, etcd, groups
<1>2. ctl' \in Calling /\ ctl'.call = "watch" /\ ctl'.file = ctl.file /\ ctl'.todo \subseteq ctl.todo
  BY <1>1, TodoType
<1>3. NamesEntered' /\ FileAsSeen'
  BY <1>1, <1>2, GroupsKept
<1>4. CASE UNCHANGED <<handler, gor>>
  <2>1. TypeOK'
    BY <1>1, <1>2, <1>4 DEF TypeOK, Grouping
  <2>2. WatchesWanted'
    BY <1>1, <1>2, <1>4 DEF WatchesWanted
  <2> QED
    BY <1>3, <2>1, <2>2
<1>5. ASSUME NEW i \in Watchers, handler' = [handler EXCEPT ![w] = i],
             gor' = [gor EXCEPT ![i] = [Free EXCEPT !.pc = "get", !.key = w]]
      PROVE  MapsInv'
  <2> DEFINE g == [Free EXCEPT !.pc = "get", !.key = w]
  <2>1. g \in Goroutine /\ g.rev = 0 /\ g.key = w
    <3>1. << >> \in [{} -> Value]
      OBVIOUS
    <3>2. << >> \in UNION {[D -> Value] : D \in SUBSET Node}
      BY <3>1
    <3> QED
      BY <1>1, <3>2 DEF Free, Goroutine
  <2> HIDE DEF g
  <2>2. g.rev <= Len(hist) /\ gor' = [gor EXCEPT ![i] = g] /\ UNCHANGED hist
    BY <1>1, <1>5, <2>1, GorFacts DEF g
  <2>3. /\ gor' \in [Watchers -> Goroutine]
        /\ \A j \in Watchers : /\ gor'[j].rev <= Len(hist')
                               /\ gor'[j].pc # "free" => gor'[j].key \in Key
    BY <1>1, <2>1, <2>2, GorUpdate
  <2>4. handler' \in [Key -> Watchers \cup {None}]
        /\ \A v \in Key : v # w => handler'[v] = handler[v]
    BY <1>1, <1>5 DEF TypeOK
  <2>5. TypeOK'
    BY <1>1, <1>2, <2>3, <2>4 DEF TypeOK, Grouping
  <2>6. WatchesWanted'
    BY <1>1, <1>2, <2>4 DEF WatchesWanted
  <2> QED
    BY <1>3, <2>5, <2>6
<1> QED
  BY <1>4, <1>5

LEMMA ExportKeeps == ASSUME MapsInv, ExportKey \/ Return PROVE MapsInv'
<1> USE DEF MapsInv
<1>1. CASE ExportKey
  <2> PICK w \in ctl.todo : ctl' = [ctl EXCEPT !.todo = @ \ {w}] /\ Refresh(Caller, w)
    BY <1>1 DEF ExportKey
  <2>1. /\ ctl.call = "export" /\ w \in Key
        /\ UNCHANGED <<store, hist, hasKeys, names, fileMap, settings, handler, out, gor, script>>
    BY <1>1, CtlFacts DEF ExportKey, etcd, groups
  <2>2. ctl' \in Calling /\ ctl'.call = "export" /\ ctl'.file = ctl.file
    BY <2>1, TodoType
  <2>3. ref' \in [Thread -> Refreshing]
    BY <2>1, RefreshType DEF Thread
  <2>4. TypeOK'
    BY <2>1, <2>2, <2>3 DEF TypeOK, Grouping
  <2> QED
    BY <2>1, <2>2, <2>4, GroupsKept DEF WatchesWanted
<1>2. CASE Return
  <2>1. /\ ctl.call \in {"watch", "export"} /\ ctl' = Idle
        /\ UNCHANGED <<store, hist, hasKeys, names, fileMap, settings, handler, out, gor, ref, script>>
    BY <1>2 DEF Return, etcd, groups
  <2>2. TypeOK'
    BY <2>1, IdleType DEF TypeOK, Grouping
  <2> QED
    BY <2>1, <2>2, IdleType, GroupsKept DEF WatchesWanted
<1> QED
  BY <1>1, <1>2

-----------------------------------------------------------------------------
(* The theorems *)

LEMMA MapsStep == MapsInv /\ [Next]_vars => MapsInv'
<1> SUFFICES ASSUME MapsInv, [Next]_vars PROVE MapsInv'
  OBVIOUS
<1>1. CASE CallerStep
  BY <1>1, BeginKeeps, AddKeysKeeps, AddNamesKeeps, AddMapKeeps, EmptyMapKeeps, EmptyKeysKeeps,
     EmptyNamesKeeps, AddWatchKeeps, ExportKeeps DEF CallerStep
<1>2. ASSUME TypeOK', UNCHANGED <<hasKeys, names, handler, ctl>> PROVE MapsInv'
  <2>1. Entered' = Entered
    BY <1>2 DEF Entered
  <2> QED
    BY <1>2, <2>1 DEF MapsInv, NamesEntered, FileAsSeen, WatchesWanted
<1>3. ASSUME NEW i \in Watchers, WatcherStep(i) \/ WatcherFails(i) PROVE MapsInv'
  <2>1. UNCHANGED <<hasKeys, names, handler, ctl>>
    BY <1>3 DEF WatcherStep, WatcherFails, Get, SetNode, SetOk, WatchEvent, WatchEnds, GetFails,
       WatchFails, groups
  <2> QED
    BY <1>2, <1>3, <2>1, WatcherType DEF MapsInv
<1>4. ASSUME NEW t \in Thread, RefreshStep(t) PROVE MapsInv'
  <2>1. UNCHANGED <<hasKeys, names, handler, ctl>>
    BY <1>4 DEF RefreshStep, RefreshNext, RefreshFile, groups
  <2> QED
    BY <1>2, <1>4, <2>1, RefreshStepType DEF MapsInv
<1>5. ASSUME NEW c \in Changes, EtcdChange(c[1], c[2], c[3]) PROVE MapsInv'
  <2>1. UNCHANGED <<hasKeys, names, handler, ctl>>
    BY <1>5 DEF EtcdChange, groups
  <2> QED
    BY <1>2, <1>5, <2>1, EtcdChangeType DEF MapsInv
<1>6. CASE UNCHANGED vars
  <2>1. TypeOK'
    BY <1>6 DEF vars, etcd, groups, MapsInv, TypeOK, RowsOnly
  <2> QED
    BY <1>2, <1>6, <2>1 DEF vars, groups
<1> QED
  BY <1>1, <1>3, <1>4, <1>5, <1>6 DEF Next

\* The invariant holds of every reachable state.
LEMMA MapsInvariant == Spec => []MapsInv
<1>1. Init => MapsInv
  <2> SUFFICES ASSUME Init PROVE MapsInv
    OBVIOUS
  <2>1. ctl.call = "none" /\ hasKeys = {} /\ \A w \in Key : names[w] = {} /\ handler[w] = None
    BY DEF Init, Idle
  <2>2. NamesEntered /\ FileAsSeen /\ WatchesWanted
    BY <2>1 DEF NamesEntered, Entered, FileAsSeen, WatchesWanted
  <2> QED
    BY <2>2, InitType DEF MapsInv
<1> QED
  BY <1>1, MapsStep, PTL DEF Spec

\* Every reachable state is well typed: an exported file holds rows of its own
\* and nodes only, nothing that does not parse is stored, and no goroutine is
\* ahead of etcd (etcd_listen.go:204-302, etcd_watcher.go:105-160).
THEOREM TypeCorrect == Spec => []TypeOK
<1>1. MapsInv => TypeOK
  BY DEF MapsInv
<1> QED
  BY <1>1, MapsInvariant, PTL

\* Between calls outputFileHasKeys, namesWithOutputFile and closeHandler agree,
\* in whatever order groups are added, removed and watched, and although each
\* call changes them one lock at a time (etcd_listen.go:62-70, 101-131).
THEOREM MapsStayInAgreement == Spec => []MapsAgree
<1>1. MapsInv => MapsAgree
  BY IdleType DEF MapsInv, NamesEntered, Entered, WatchesWanted, MapsAgree
<1> QED
  BY <1>1, MapsInvariant, PTL

-----------------------------------------------------------------------------
(* The goroutines and their handlers *)

\* The fields OneWatcher looks at after a goroutine's step.
LEMMA WatcherFields ==
    ASSUME TypeOK, NEW i \in Watchers, WatcherStep(i) \/ WatcherFails(i)
    PROVE  /\ \A j \in Watchers : /\ gor'[j].key = gor[j].key
                                  /\ gor'[j].cancelled = gor[j].cancelled
                                  /\ gor[j].pc # "free" <=> gor'[j].pc # "free"
                                  /\ gor'[j].pc = "done" => gor[j].pc = "done" \/ gor[j].cancelled
           /\ UNCHANGED handler
<1>1. gor \in [Watchers -> Goroutine] /\ gor[i] \in Goroutine
  BY GorFacts
<1>2. UNCHANGED handler
  BY DEF WatcherStep, WatcherFails, Get, SetNode, SetOk, WatchEvent, WatchEnds, GetFails, WatchFails
<1>3. \A j \in Watchers \ {i} : gor'[j] = gor[j]
  BY <1>1 DEF WatcherStep, WatcherFails, Get, SetNode, SetOk, WatchEvent, WatchEnds, GetFails,
     WatchFails
<1>4. ASSUME NEW r, NEW l, NEW p, NEW b
      PROVE  LET g == gor[i]
                 a == [g EXCEPT !.rev = r, !.left = l, !.pc = p, !.stray = b]
                 c == [g EXCEPT !.left = l, !.stray = b]
                 d == [g EXCEPT !.rev = r, !.stray = b]
                 e == [g EXCEPT !.pc = p]
             IN /\ a.key = g.key /\ a.cancelled = g.cancelled /\ a.pc = p
                /\ c.key = g.key /\ c.cancelled = g.cancelled /\ c.pc = g.pc
                /\ d.key = g.key /\ d.cancelled = g.cancelled /\ d.pc = g.pc
                /\ e.key = g.key /\ e.cancelled = g.cancelled /\ e.pc = p
  BY <1>1 DEF Goroutine
<1>5. /\ gor'[i].key = gor[i].key /\ gor'[i].cancelled = gor[i].cancelled
      /\ gor[i].pc # "free" /\ gor'[i].pc # "free"
      /\ gor'[i].pc = "done" => gor[i].cancelled
  <2>1. CASE Get(i)
    <3>1. PICK r, l, p, b : /\ gor' = [gor EXCEPT ![i].rev = r, ![i].left = l, ![i].pc = p, ![i].stray = b]
                            /\ p \in {"watch", "set"}
      BY <2>1 DEF Get
    <3>2. gor'[i] = [gor[i] EXCEPT !.rev = r, !.left = l, !.pc = p, !.stray = b]
      BY <1>1, <3>1
    <3>3. gor'[i].key = gor[i].key /\ gor'[i].cancelled = gor[i].cancelled /\ gor'[i].pc = p
      BY <1>4, <3>2
    <3>4. gor[i].pc = "get"
      BY <2>1 DEF Get, At
    <3> QED
      BY <3>1, <3>3, <3>4
  <2>2. CASE SetNode(i)
    BY <1>1, <1>4, <2>2 DEF SetNode, At
  <2>3. CASE SetOk(i)
    BY <1>1, <1>4, <2>3 DEF SetOk, At
  <2>4. CASE WatchEvent(i)
    BY <1>1, <1>4, <2>4 DEF WatchEvent, At
  <2>5. CASE WatchEnds(i)
    BY <1>1, <1>4, <2>5 DEF WatchEnds, At
  <2>6. CASE GetFails(i) \/ WatchFails(i)
    <3>1. gor[i].pc # "free" /\ gor' = [gor EXCEPT ![i].pc = "failed"]
      BY <2>6 DEF GetFails, WatchFails, At
    <3> QED
      BY <1>1, <1>4, <3>1
  <2> QED
    BY <2>1, <2>2, <2>3, <2>4, <2>5, <2>6 DEF WatcherStep, WatcherFails
<1> QED
  BY <1>2, <1>3, <1>5

\* A watch starts only for a key without a handler, and it becomes the handler.
LEMMA AddWatchOne == ASSUME MapsInv, OneWatcher, AddWatch PROVE OneWatcher'
<1>1. PICK w \in ctl.todo :
          IF handler[w] # None THEN UNCHANGED <<handler, gor>>
          ELSE \E i \in Watchers :
                  /\ gor[i].pc = "free"
                  /\ handler' = [handler EXCEPT ![w] = i]
                  /\ gor' = [gor EXCEPT ![i] = [Free EXCEPT !.pc = "get", !.key = w]]
  BY DEF AddWatch
<1>2. w \in Key
  BY CtlFacts DEF MapsInv
<1>3. CASE UNCHANGED <<handler, gor>>
  BY <1>3 DEF OneWatcher
<1>4. ASSUME NEW i \in Watchers, handler[w] = None, gor[i].pc = "free",
             handler' = [handler EXCEPT ![w] = i],
             gor' = [gor EXCEPT ![i] = [Free EXCEPT !.pc = "get", !.key = w]]
      PROVE  OneWatcher'
  <2>1. handler \in [Key -> Watchers \cup {None}] /\ gor \in [Watchers -> Goroutine]
    BY DEF MapsInv, TypeOK
  <2>2. /\ handler'[w] = i /\ \A v \in Key \ {w} : handler'[v] = handler[v]
        /\ gor'[i].key = w /\ ~gor'[i].cancelled /\ gor'[i].pc = "get"
        /\ \A j \in Watchers \ {i} : gor'[j] = gor[j]
    BY <1>2, <1>4, <2>1 DEF Free
  <2>3. \A v \in Key : handler[v] # i
    BY <1>4, <2>1, ConfAssumption DEF OneWatcher
  <2>4. ASSUME NEW j \in Watchers \ {i}, gor[j].pc # "free", ~gor[j].cancelled
        PROVE  gor[j].key \in Key \ {w} /\ handler[gor[j].key] = j
    <3>1. handler[gor[j].key] = j /\ gor[j].key \in Key
      BY <2>4 DEF OneWatcher, MapsInv, TypeOK
    <3> QED
      BY <1>4, <3>1, ConfAssumption
  <2>5. ASSUME NEW v \in Key, handler'[v] # None
        PROVE  LET g == gor'[handler'[v]]
               IN g.key = v /\ ~g.cancelled /\ g.pc \notin {"free", "done"}
    <3>1. CASE v = w
      BY <2>2, <3>1
    <3>2. CASE v # w
      <4>1. handler'[v] = handler[v] /\ handler[v] \in Watchers \ {i}
        BY <2>1, <2>2, <2>3, <2>5, <3>2
      <4> QED
        BY <2>2, <2>5, <4>1 DEF OneWatcher
    <3> QED
      BY <3>1, <3>2
  <2>6. ASSUME NEW j \in Watchers, gor'[j].pc # "free", ~gor'[j].cancelled
        PROVE  handler'[gor'[j].key] = j
    BY <2>2, <2>4, <2>6
  <2> QED
    BY <2>5, <2>6 DEF OneWatcher
<1> QED
  BY <1>1, <1>3, <1>4

\* RemoveWatch takes a key's handler and tells its goroutine, and only this
\* one, to stop.
LEMMA EmptyNamesOne == ASSUME MapsInv, OneWatcher, EmptyNames PROVE OneWatcher'
<1>1. PICK U : /\ handler' = [w \in Key |-> IF w \in U THEN None ELSE handler[w]]
               /\ gor' = [i \in Watchers |-> IF \E w \in U : handler[w] = i
                                             THEN [gor[i] EXCEPT !.cancelled = TRUE] ELSE gor[i]]
               /\ U \subseteq Key
  <2> DEFINE V == {w \in KeysOf(ctl.file) : names'[w] = {}}
  <2>1. ctl.file \in File
    BY CtlFacts DEF MapsInv, EmptyNames, Grouping
  <2>2. V \subseteq Key
    BY <2>1, ConfAssumption DEF KeysOf, Row
  <2>3. /\ handler' = [w \in Key |-> IF w \in V THEN None ELSE handler[w]]
        /\ gor' = [i \in Watchers |-> IF \E w \in V : handler[w] = i
                                      THEN [gor[i] EXCEPT !.cancelled = TRUE] ELSE gor[i]]
    BY DEF EmptyNames
  <2> QED
    BY <2>2, <2>3
<1>2. handler \in [Key -> Watchers \cup {None}] /\ gor \in [Watchers -> Goroutine]
  BY DEF MapsInv, TypeOK
<1>3. ASSUME NEW i \in Watchers
      PROVE  /\ gor'[i].key = gor[i].key /\ gor'[i].pc = gor[i].pc
             /\ (\E w \in U : handler[w] = i) => gor'[i].cancelled
             /\ ~(\E w \in U : handler[w] = i) => gor'[i] = gor[i]
  BY <1>1, <1>2 DEF Goroutine
<1>4. ASSUME NEW v \in Key, handler'[v] # None
      PROVE  LET g == gor'[handler'[v]]
             IN g.key = v /\ ~g.cancelled /\ g.pc \notin {"free", "done"}
  <2>1. v \notin U /\ handler'[v] = handler[v] /\ handler[v] \in Watchers
    BY <1>1, <1>2, <1>4
  <2>2. ~\E w \in U : handler[w] = handler[v]
    BY <1>1, <1>4, <2>1 DEF OneWatcher
  <2>3. gor'[handler[v]] = gor[handler[v]]
    BY <1>3, <2>1, <2>2
  <2> QED
    BY <1>4, <2>1, <2>3 DEF OneWatcher
<1>5. ASSUME NEW i \in Watchers, gor'[i].pc # "free", ~gor'[i].cancelled
      PROVE  handler'[gor'[i].key] = i
  <2>1. gor'[i] = gor[i] /\ ~\E w \in U : handler[w] = i
    BY <1>3, <1>5
  <2>2. gor[i].key \in Key /\ handler[gor[i].key] = i
    BY <1>5, <2>1 DEF OneWatcher, MapsInv, TypeOK
  <2> QED
    BY <1>1, <2>1, <2>2
<1> QED
  BY <1>4, <1>5 DEF OneWatcher

\* A key never has two watches, and the goroutine that watches a key is the
\* one its handler ends, across every step of every call and goroutine
\* (etcd_watcher.go:54-82, etcd_listen.go:101-131).
THEOREM WatchIsOne == Spec => []OneWatcher
<1>1. Init => OneWatcher
  BY DEF Init, OneWatcher, Free
<1>2. MapsInv /\ OneWatcher /\ [Next]_vars => OneWatcher'
  <2> SUFFICES ASSUME MapsInv, OneWatcher, [Next]_vars PROVE OneWatcher'
    OBVIOUS
  <2>1. CASE UNCHANGED <<handler, gor>>
    BY <2>1 DEF OneWatcher
  <2>2. CASE CallerStep
    BY <2>1, <2>2, AddWatchOne, EmptyNamesOne DEF CallerStep, Begin, AddKeys, AddNames, AddMap,
       EmptyMap, EmptyKeys, ExportKey, Return
  <2>3. ASSUME NEW i \in Watchers, WatcherStep(i) \/ WatcherFails(i) PROVE OneWatcher'
    <3>1. /\ \A j \in Watchers : /\ gor'[j].key = gor[j].key
                                 /\ gor'[j].cancelled = gor[j].cancelled
                                 /\ gor[j].pc # "free" <=> gor'[j].pc # "free"
                                 /\ gor'[j].pc = "done" => gor[j].pc = "done" \/ gor[j].cancelled
          /\ UNCHANGED handler
      BY <2>3, WatcherFields DEF MapsInv
    <3>2. handler \in [Key -> Watchers \cup {None}]
      BY DEF MapsInv, TypeOK
    <3>3. ASSUME NEW w \in Key, handler[w] # None
          PROVE  LET g == gor'[handler[w]]
                 IN g.key = w /\ ~g.cancelled /\ g.pc \notin {"free", "done"}
      <4>1. handler[w] \in Watchers
        BY <3>2, <3>3
      <4> QED
        BY <3>1, <3>3, <4>1 DEF OneWatcher
    <3> QED
      BY <3>1, <3>3 DEF OneWatcher
  <2>4. ASSUME NEW t \in Thread, RefreshStep(t) PROVE UNCHANGED <<handler, gor>>
    BY <2>4 DEF RefreshStep, RefreshNext, RefreshFile
  <2>5. ASSUME NEW c \in Changes, EtcdChange(c[1], c[2], c[3]) PROVE UNCHANGED <<handler, gor>>
    BY <2>5 DEF EtcdChange
  <2>6. CASE UNCHANGED vars
    BY <2>1, <2>6 DEF vars
  <2> QED
    BY <2>1, <2>2, <2>3, <2>4, <2>5, <2>6 DEF Next
<1> QED
  BY <1>1, <1>2, MapsInvariant, PTL DEF Spec
=============================================================================

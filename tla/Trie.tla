-------------------------------- MODULE Trie --------------------------------
(***************************************************************************)
(* components/trie: a trie of forbidden words.  A node keeps its children  *)
(* in a sync.Map and whether a word ends there; Add and Del walk it        *)
(* without any lock, one atomic map operation after the other, and         *)
(* goroutines may run them at the same time.  TrieQuery models Query.      *)
(***************************************************************************)
EXTENDS Integers, Sequences

CONSTANTS Char,      \* the runes
          Thread,    \* the goroutines that change the trie
          Scripts,   \* what they do: functions from Thread to Seq(Job)
          MaxNode,   \* bound: nodes ever made
          None       \* no node

Job == [op : {"add", "del"}, word : Seq(Char)]

ASSUME TrieAssumption ==
    /\ MaxNode \in Nat \ {0}
    /\ None \notin 1 .. MaxNode
    /\ Scripts \subseteq [Thread -> Seq(Job)]

Calls(p) == UNION {{[thread |-> t, job |-> p[t][k]] : k \in DOMAIN p[t]} : t \in Thread}

\* The calls of p that do op with a word that begins with the rune c.
CallsAt(p, op, c) ==
    {x \in Calls(p) : x.job.op = op /\ x.job.word # << >> /\ x.job.word[1] = c}

\* The runes whose words Del deletes one at a time: of the words that begin
\* with such a rune none is deleted, or only one is ever added, by the
\* goroutine that deletes, and it is no shorter than what is deleted.  Below
\* any other rune a Del takes other words with it: it deletes every node it
\* came through with all below, and stops at the first where any word ends.
Apart == {c \in Char : \A p \in Scripts :
    \A x \in CallsAt(p, "del", c), y \in CallsAt(p, "add", c) :
        /\ y.thread = x.thread /\ Len(x.job.word) <= Len(y.job.word)
        /\ \A z \in CallsAt(p, "add", c) : z.job.word = y.job.word}

Tidy(w) == w # << >> /\ w[1] \in Apart

Root == 1
NodeId == 1 .. MaxNode
NoJob == [op |-> "none", word |-> << >>]

VARIABLES kids,    \* kids[n][c]: the child of node n for rune c, or None
          end,     \* end[n]: Node.End
          label,   \* label[n]: the runes on the way to n, as cycleRead joins
                   \* them (history: no step depends on it)
          fresh,   \* the next node NewTrieNode returns
          script,  \* script[t]: what t still does
          job,     \* job[t]: the call t is in
          path     \* path[t]: the nodes t's call has walked through

heap == <<kids, end, label, fresh>>
vars == <<heap, script, job, path>>

Node(t) == path[t][Len(path[t])]
Rune(t) == job[t].word[Len(path[t])]
Kid(t) == kids[Node(t)][Rune(t)]
AtEnd(t) == Len(path[t]) > Len(job[t].word)

Return(t) ==
    /\ job' = [job EXCEPT ![t] = NoJob]
    /\ path' = [path EXCEPT ![t] = << >>]

\* Mutant: the empty word is a word like any other.
CallMutant(t) ==
    /\ job[t] = NoJob /\ script[t] # << >>
    /\ script' = [script EXCEPT ![t] = Tail(@)]
    /\ job' = [job EXCEPT ![t] = Head(script[t])]
    /\ path' = [path EXCEPT ![t] = <<Root>>]
    /\ UNCHANGED heap

\* A call begins at the root; the empty word returns at once.
Call(t) ==
    /\ job[t] = NoJob /\ script[t] # << >>
    /\ script' = [script EXCEPT ![t] = Tail(@)]
    /\ IF Head(script[t]).word = << >> THEN UNCHANGED <<job, path>>
       ELSE /\ job' = [job EXCEPT ![t] = Head(script[t])]
            /\ path' = [path EXCEPT ![t] = <<Root>>]
    /\ UNCHANGED heap

-----------------------------------------------------------------------------
(* Add *)

\* Mutant: a store instead of LoadOrStore.
AddNodeMutant(t) ==
    /\ job[t].op = "add" /\ ~AtEnd(t)
    /\ fresh \in NodeId
    /\ kids' = [kids EXCEPT ![Node(t)][Rune(t)] = fresh]
    /\ label' = [label EXCEPT ![fresh] = Append(label[Node(t)], Rune(t))]
    /\ fresh' = fresh + 1
    /\ path' = [path EXCEPT ![t] = Append(@, fresh)]
    /\ UNCHANGED <<end, script, job>>

\* LoadOrStore of the next rune's node.
AddNode(t) ==
    /\ job[t].op = "add" /\ ~AtEnd(t)
    /\ IF Kid(t) # None
       THEN /\ path' = [path EXCEPT ![t] = Append(@, Kid(t))]
            /\ UNCHANGED <<kids, label, fresh>>
       ELSE /\ fresh \in NodeId
            /\ kids' = [kids EXCEPT ![Node(t)][Rune(t)] = fresh]
            /\ label' = [label EXCEPT ![fresh] = Append(label[Node(t)], Rune(t))]
            /\ fresh' = fresh + 1
            /\ path' = [path EXCEPT ![t] = Append(@, fresh)]
    /\ UNCHANGED <<end, script, job>>

AddEnd(t) ==
    /\ job[t].op = "add" /\ AtEnd(t)
    /\ end' = [end EXCEPT ![Node(t)] = TRUE]
    /\ Return(t)
    /\ UNCHANGED <<kids, label, fresh, script>>

-----------------------------------------------------------------------------
(* Del: cycleDel goes down, then up again deleting what it came through *)

\* The next node is there, is not the word's last and ends no word.
DelDown(t) ==
    /\ job[t].op = "del" /\ Kid(t) # None
    /\ Len(path[t]) < Len(job[t].word) /\ ~end[Kid(t)]
    /\ path' = [path EXCEPT ![t] = Append(@, Kid(t))]
    /\ UNCHANGED <<heap, script, job>>

\* A node where a word ends is to be deleted, the word's last or not.
DelFound(t) ==
    /\ job[t].op = "del" /\ Kid(t) # None /\ end[Kid(t)]
    /\ job' = [job EXCEPT ![t].op = "delUp"]
    /\ UNCHANGED <<heap, script, path>>

\* node.Node.Delete(char), whatever else is below it, and one level up.
DelUp(t) ==
    /\ job[t].op = "delUp"
    /\ kids' = [kids EXCEPT ![Node(t)][Rune(t)] = None]
    /\ IF Len(path[t]) = 1 THEN Return(t)
       ELSE /\ path' = [path EXCEPT ![t] = SubSeq(@, 1, Len(@) - 1)]
            /\ UNCHANGED job
    /\ UNCHANGED <<end, label, fresh, script>>

\* The word is not in the trie.
DelMiss(t) ==
    /\ job[t].op = "del"
    /\ \/ Kid(t) = None
       \/ Kid(t) # None /\ Len(path[t]) = Len(job[t].word) /\ ~end[Kid(t)]
    /\ Return(t)
    /\ UNCHANGED <<heap, script>>

-----------------------------------------------------------------------------
Init ==
    /\ kids = [n \in NodeId |-> [c \in Char |-> None]]
    /\ end = [n \in NodeId |-> FALSE]
    /\ label = [n \in NodeId |-> << >>]
    /\ fresh = Root + 1
    /\ script \in Scripts
    /\ job = [t \in Thread |-> NoJob]
    /\ path = [t \in Thread |-> << >>]

Next == \E t \in Thread : \/ Call(t) \/ AddNode(t) \/ AddEnd(t)
                          \/ DelDown(t) \/ DelFound(t) \/ DelUp(t) \/ DelMiss(t)

Spec == Init /\ [][Next]_vars

-----------------------------------------------------------------------------
(* ReadAll *)

Kids(S) == {kids[n][c] : n \in S, c \in Char} \ {None}

\* The nodes cycleRead comes to: the root and the children of these nodes.
Reachable == CHOOSE S \in SUBSET NodeId : S = {Root} \cup Kids(S)
ReadAll == {label[n] : n \in {m \in Reachable : end[m]}}

Idle == \A t \in Thread : job[t] = NoJob

-----------------------------------------------------------------------------
(* Properties *)

\* A child is made after its parent, is a child of no other node, and its way
\* is its parent's and its own rune.
Tree ==
    \A n \in NodeId, c \in Char : kids[n][c] # None =>
        /\ kids[n][c] \in n + 1 .. fresh - 1
        /\ label[kids[n][c]] = Append(label[n], c)
        /\ \A k \in NodeId, d \in Char : kids[k][d] = kids[n][c] => k = n /\ d = c

\* Nodes not made yet are as NewTrieNode returns them.
Blank == \A n \in fresh .. MaxNode : ~end[n] /\ \A c \in Char : kids[n][c] = None

\* Every variable has its type, the nodes form a tree, no word ends at its
\* root, and no walk goes past its word (trie.go:35-53).
TypeOK ==
    /\ kids \in [NodeId -> [Char -> NodeId \cup {None}]]
    /\ end \in [NodeId -> BOOLEAN] /\ ~end[Root]
    /\ label \in [NodeId -> Seq(Char)] /\ label[Root] = << >>
    /\ fresh \in Root + 1 .. MaxNode + 1
    /\ Tree /\ Blank
    /\ script \in [Thread -> Seq(Job)]
    /\ job \in [Thread -> [op : {"none", "add", "del", "delUp"}, word : Seq(Char)]]
    /\ path \in [Thread -> Seq(NodeId)]
    /\ \A t \in Thread : Len(path[t]) <= Len(job[t].word) + 1

\* Below the Apart runes every call takes effect at one moment between its
\* call and its return, whatever Adds and Dels of other words run at the same
\* time: these words are the set of WordSet.  An Add takes effect with the End
\* it sets, a Del with the first node it deletes (trie.go:51, 78).
Pending(t) ==
    IF ~Tidy(job[t].word) THEN NoJob
    ELSE IF job[t].op # "delUp" THEN job[t]
    ELSE [op |-> IF Len(path[t]) = Len(job[t].word) THEN "del" ELSE "deleted", word |-> job[t].word]
Abstract == INSTANCE WordSet WITH
                words <- {w \in ReadAll : Tidy(w)},
                pending <- [t \in Thread |-> Pending(t)],
                Word <- UNION {{x.job.word : x \in Calls(p)} : p \in Scripts}
SetRefinement == Abstract!WordSpec
=============================================================================

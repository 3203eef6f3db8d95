----------------------------- MODULE TrieQuery -----------------------------
(***************************************************************************)
(* Query of components/trie masks the words of the trie it finds in a      *)
(* text, except where one of the two white lists spares them.  It reads    *)
(* the trie between the calls of Trie.                                     *)
(***************************************************************************)
EXTENDS Trie, FiniteSetsExt

CONSTANTS Texts,     \* the texts queried
          Lists,     \* the white lists: records like NoLists, of sets of words
          Mask       \* the rune '*'

ASSUME MaskAssumption == Mask \notin Char

\* A trie as Query sees it: the paths that exist and those where words end.
View == [paths |-> {label[n] : n \in Reachable \ {Root}}, ends |-> ReadAll]

\* The trie with exactly the words ws.
Fresh(ws) == [paths |-> UNION {{SubSeq(w, 1, k) : k \in 1 .. Len(w)} : w \in ws}, ends |-> ws]

\* How far the walk from position i gets, and the ends of words it passes;
\* the first rune's own node is never looked at.
Reach(v, s, i) == Max({i} \cup {k \in i .. Len(s) : SubSeq(s, i, k) \in v.paths})
Ends(v, s, i) == {j \in i + 1 .. Reach(v, s, i) : SubSeq(s, i, j) \in v.ends}

\* Mutant: one rune too many.
HitMutant(v, s, i) ==
    LET k == Reach(v, s, i)
    IN IF Ends(v, s, i) = {} THEN None
       ELSE IF k < Len(s) THEN Max(Ends(v, s, i)) + 1
       ELSE IF k \in Ends(v, s, i) THEN k ELSE None

\* Mutant: nothing is masked where the walk breaks off.
HitBreakMutant(v, s, i) ==
    LET k == Reach(v, s, i)
    IN IF k = Len(s) /\ k \in Ends(v, s, i) THEN k ELSE None

\* The last position of the word found at i: the longest, if the walk stops
\* before the text does; only one that ends the text, if it does not.
Hit(v, s, i) ==
    LET k == Reach(v, s, i)
    IN IF Ends(v, s, i) = {} THEN None
       ELSE IF k < Len(s) THEN Max(Ends(v, s, i))
       ELSE IF k \in Ends(v, s, i) THEN k ELSE None

Masked(s, i, j) == [k \in 1 .. Len(s) |-> IF k \in i .. j THEN Mask ELSE s[k]]

\* Mutant: one rune too many before the word.
PrefixMutant(s, i) == SubSeq(s, IF i > 5 THEN i - 5 ELSE 1, i)

\* The prefix list is asked about the four runes before the word and its
\* first; the suffix list about its last rune and the four after it.
Prefix(s, i) == SubSeq(s, IF i > 4 THEN i - 4 ELSE 1, i)
Suffix(s, j) == SubSeq(s, j, IF j + 4 > Len(s) THEN Len(s) ELSE j + 4)

NoLists == [check |-> FALSE, prefix |-> {}, suffix |-> {}]

\* Where the loop goes on after a word from i to j: behind it, spared or not.
Resume(i, j, spared) == j + 1

RECURSIVE Scan(_, _, _, _)
\* The text after the loop from position i on.
Scan(v, s, i, white) ==
    IF i > Len(s) THEN s
    ELSE IF Hit(v, s, i) = None THEN Scan(v, s, i + 1, white)
    ELSE LET j == Hit(v, s, i)
             pre == Scan(Fresh(white.prefix), Prefix(s, i), 1, NoLists)
             suf == Scan(Fresh(white.suffix), Suffix(s, j), 1, NoLists)
             spared == white.check /\ \/ i > 1 /\ pre[Len(pre)] = Mask
                                      \/ j < Len(s) /\ suf[1] = Mask
         IN Scan(v, IF spared THEN s ELSE Masked(s, i, j), Resume(i, j, spared), white)

Query(v, s, white) == Scan(v, s, 1, white)

-----------------------------------------------------------------------------
(* Properties *)

MaskedAt(v, s, white) == {k \in 1 .. Len(s) : Query(v, s, white)[k] = Mask}
AllLists == {[l EXCEPT !.check = TRUE] : l \in Lists} \cup {NoLists}

\* What Query masks are whole words of the trie (trie.go:89-155).
QuerySound ==
    LET v == View
    IN Idle => \A s \in Texts, l \in AllLists :
          LET m == MaskedAt(v, s, l)
          IN \A k \in m : \E i \in 1 .. k, j \in k .. Len(s) :
                i .. j \subseteq m /\ SubSeq(s, i, j) \in v.ends

PrefixFree(ws) ==
    \A w \in ws : Len(w) > 1 /\ \A x \in ws : \A k \in 1 .. Len(x) - 1 : SubSeq(x, 1, k) # w

\* Query leaves no word of the trie in the text, if every word has at least
\* two runes and none is the beginning of another (trie.go:102-147).
QueryComplete ==
    LET v == View
    IN Idle /\ PrefixFree(v.ends) => \A s \in Texts :
          LET q == Query(v, s, NoLists)
          IN \A i \in 1 .. Len(s), j \in 1 .. Len(s) : SubSeq(q, i, j) \notin v.ends

\* White lists only spare: with them Query masks nothing it would not mask
\* without, and what it spares is a word whose first rune ends, or whose last
\* one begins, a listed word of at most five runes (trie.go:115-141, 157-204).
Beside(s, i, j, l) ==
    \/ \E u \in l.prefix : Len(u) <= 5 /\ Len(u) <= i /\ SubSeq(s, i - Len(u) + 1, i) = u
    \/ \E u \in l.suffix : Len(u) <= 5 /\ j + Len(u) - 1 <= Len(s) /\ SubSeq(s, j, j + Len(u) - 1) = u
ListsSpare ==
    LET v == View
    IN Idle => \A s \in Texts, l \in AllLists :
          LET m == MaskedAt(v, s, l)
              n == MaskedAt(v, s, NoLists)
          IN /\ m \subseteq n
             /\ \A k \in n \ m : \E i \in 1 .. k, j \in k .. Len(s) :
                   SubSeq(s, i, j) \in v.ends /\ Beside(s, i, j, l)
=============================================================================

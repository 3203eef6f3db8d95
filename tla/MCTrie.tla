------------------------------- MODULE MCTrie -------------------------------
(***************************************************************************)
(* A small instance of Trie and TrieQuery: two goroutines, three runes,    *)
(* all the texts of at most four runes, and some that are longer than what *)
(* the white lists are asked about.                                        *)
(***************************************************************************)
EXTENDS TrieQuery

CONSTANTS a, b, c, t1, t2

Runes == {a, b, c}
AllTexts == UNION {[1 .. n -> Runes] : n \in 0 .. 4}
            \cup {<<b, b, c, c, b, a, b>>, <<c, b, b, b, b, a, c>>, <<b, c, b, b, b, b, a, c, a>>,
                  <<a, b, b, c, c, b, a>>, <<a, c, b, b, b, c, a>>, <<a, b, c, b, a, b, c>>}
Add(w) == [op |-> "add", word |-> w]
Del(w) == [op |-> "del", word |-> w]

\* Below a and b words are deleted apart; below c a Del takes what begins alike.
SomeScripts ==
    {[t \in {t1, t2} |->
         IF t = t1 THEN <<Add(<<a, b>>), Add(<<a, b, c>>), Add(<< >>)>>
         ELSE <<Add(<<a, c>>), Add(<<b, c>>), Del(<<b, c>>), Del(<<b, c>>), Add(<<a, b, c>>)>>],
     [t \in {t1, t2} |->
         IF t = t1 THEN <<Add(<<a, b>>), Add(<<a, c, a>>)>>
         ELSE <<Add(<<b, a>>), Add(<<a, c, b>>), Del(<<b>>), Del(<<b, a>>), Del(<<b, c>>), Del(<< >>)>>],
     [t \in {t1, t2} |->
         IF t = t1 THEN <<Add(<<c, a>>), Add(<<c, b>>), Add(<<b, c>>), Del(<<c, a>>), Del(<<b, c>>)>>
         ELSE <<Add(<<a>>), Add(<<c, b>>), Del(<<c, b>>)>>]}

SomeLists == {[check |-> TRUE, suffix |-> {},
               prefix |-> {<<c, a>>, <<c, b, a>>, <<c, c, b, a>>, <<c, b, b, b, a>>, <<c, b, b, b, b, a>>}],
              [check |-> TRUE, prefix |-> {},
               suffix |-> {<<b, a>>, <<c, a>>, <<b, b, c, c, b>>, <<c, b, b, b, c, a>>}]}
=============================================================================

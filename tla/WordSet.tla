------------------------------ MODULE WordSet ------------------------------
(***************************************************************************)
(* What components/trie promises the goroutines that share a Trie: a set   *)
(* of words in which every Add and every Del takes effect at one moment    *)
(* between its call and its return.  Trie is shown to implement it.        *)
(***************************************************************************)
CONSTANTS Thread,    \* the goroutines
          Word       \* the words they use

VARIABLES words,     \* the words in the set
          pending    \* pending[t]: the call t is in

NoCall == [op |-> "none", word |-> << >>]
Become(t, call) == pending' = [pending EXCEPT ![t] = call]

WordInit ==
    /\ words = {}
    /\ pending = [t \in Thread |-> NoCall]

\* t calls Add or Del.
Invoke(t) ==
    /\ pending[t] = NoCall
    /\ \E op \in {"add", "del"}, w \in Word : Become(t, [op |-> op, word |-> w])
    /\ UNCHANGED words

\* The word is in the set as t's Add returns.
AddWord(t) ==
    /\ pending[t].op = "add"
    /\ words' = words \cup {pending[t].word}
    /\ Become(t, NoCall)

\* The word leaves the set, if it is there; t's Del returns now or later.
DelWord(t) ==
    /\ pending[t].op = "del"
    /\ words' = words \ {pending[t].word}
    /\ \E call \in {NoCall, [pending[t] EXCEPT !.op = "deleted"]} : Become(t, call)

DelReturns(t) ==
    /\ pending[t].op = "deleted"
    /\ Become(t, NoCall)
    /\ UNCHANGED words

WordNext == \E t \in Thread : Invoke(t) \/ AddWord(t) \/ DelWord(t) \/ DelReturns(t)

WordSpec == WordInit /\ [][WordNext]_<<words, pending>>
=============================================================================

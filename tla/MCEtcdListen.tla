---------------------------- MODULE MCEtcdListen ----------------------------
(***************************************************************************)
(* Two files: one lists both watch keys, the other only the first.         *)
(***************************************************************************)
EXTENDS EtcdListen

CONSTANTS w1, w2, n1, n2, f1, f2, v1, v2

Keys == {w1, w2}
Nodes == {n1, n2}
Files == {f1, f2}
Vers == {v1, v2}
Goroutines == 1 .. 2
R(s, w, vs) == [sname |-> s, name |-> w, range |-> vs]
Confs == [f \in Files |-> IF f = f1 THEN {R("a", w1, {v1, v2})}
                          ELSE {R("a", w1, {v2}), R("b", w2, {v1})}]

\* n1 comes, changes into a value that does not parse, and goes.
Moves == Keys \X {n1} \X {v1, Bad, None}

Case(calls, nodes) ==
    [script |-> calls,
     store |-> [w \in Keys |-> [n \in Nodes |-> IF w = w1 /\ n \in nodes THEN v1 ELSE None]]]

\* One group; a group added to a running watch and exported by hand, as only
\* the next change would export it otherwise; groups first and watches after,
\* and a group removed while another keeps one of its keys; a group removed
\* and added again, so that its key is watched a second time, over nodes that
\* were there before.
Growing ==
    { Case(<< <<"add", f1>>, <<"watch", None>> >>, {}),
      Case(<< <<"add", f1>>, <<"watch", None>>, <<"add", f2>>, <<"watch", None>>,
              <<"export", None>> >>, {}),
      Case(<< <<"add", f1>>, <<"add", f1>>, <<"empty", f2>>, <<"add", f2>>, <<"watch", None>>,
              <<"empty", f2>> >>, {}),
      Case(<< <<"add", f1>>, <<"watch", None>>, <<"empty", f1>>, <<"add", f1>>,
              <<"watch", None>> >>, Nodes) }
=============================================================================

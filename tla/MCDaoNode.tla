----------------------------- MODULE MCDaoNode -----------------------------
(***************************************************************************)
(* A small instance of DaoNode: integers of six bits, weights with and     *)
(* without a common divisor, a rule of every type and a range without end. *)
(***************************************************************************)
EXTENDS DaoNode

CONSTANTS r1, r2, w1, w2

\* Stands for crc32: any function of the text does.
SomeCrc(t) == IF t = << >> THEN 0 ELSE (7 * Magnitude(t) + 3 * Len(t)) % 64

\* The local date of a time: two days of two months a year.  Early years,
\* then the last ones of four digits and the first of five.
SomeDates ==
    [n \in -32 .. 31 |->
        LET k == n + 32
        IN [y |-> (IF n < 12 THEN 1 ELSE 9987) + (k \div 4), m |-> 9 + ((k \div 2) % 2), d |-> 19 + 11 * (k % 2)]]

Rule(table, type) == [table |-> table, type |-> type, modNum |-> 3, locations |-> 3, limit |-> 7]
SomeRules == <<Rule("a", "mod"), Rule("b", "date_day"), Rule("c", "date_month"),
               Rule("d", "range"), Rule("e", "date_year"),
               [Rule("f", "range") EXCEPT !.locations = 1, !.limit = 31]>>

SomeConfigs ==
    {[weights |-> w, shards |-> SomeRules] : w \in {<<2, 4>>, <<1, 2, 1>>, <<3>>}}
        \cup {[weights |-> w, shards |-> <<Rule("a", "none"), Rule("b", "mod")>>] : w \in {<< >>, <<1, 0>>}}
=============================================================================
